---- MODULE Spec2Model ----
(***************************************************************************)
(* Model of the natural-language-to-SQL pipeline of the Finnish budget     *)
(* explorer: the identifier sanitizers, the response parser, the           *)
(* NLToSQLConverter / EnhancedNLToSQLConverter state machine and the       *)
(* callers that hand the generated query to the query executor.            *)
(*                                                                         *)
(* A Python str is a sequence of one-character strings, so that regular    *)
(* expressions and str.replace are computed character by character.        *)
(* Fixed message texts that are only concatenated, never scanned, are      *)
(* sequences of multi-character chunks.                                    *)
(***************************************************************************)
EXTENDS Integers, Sequences, FiniteSets, TLC

VARIABLES
    sanQuery,     \* the query string given to a sanitizer
    sanText,      \* the string after the applications made so far
    sanPrev,      \* the string before the last application
    sanBy,        \* which sanitizer is being applied
    sanCount,     \* how many times it has been applied
    testOutcome   \* outcome of TestRealDataProvider.test_prepare_sql_query

sanVars == <<sanQuery, sanText, sanPrev, sanBy, sanCount, testOutcome>>

VARIABLES
    variant,          \* "nl": NLToSQLConverter, "enhanced": EnhancedNLToSQLConverter
    caller,           \* who calls generate_sql: FinancialDataApp.handle_query ("app"),
                      \* QueryHandler.process_query ("handler") or other code ("direct")
    table_name,       \* self.table_name
    schema,           \* self.schema
    available_years,  \* st.session_state.get('available_years', [])
    active_filters,   \* st.session_state.get('active_filters', {})
    pc,               \* where the conversion stands
    prompt,           \* the prompt built for the model
    response,         \* what the model invocation gave: a response or an exception
    result,           \* the (query, explanation) the converter returns
    raised,           \* the exception that left generate_sql, if any
    trace,            \* the steps of the current conversion, in order
    modelCalls,       \* model invocations made by the current generate_sql call
    calls,            \* generate_sql calls made so far
    totalModelCalls,  \* model invocations made so far
    execArg           \* the query the query executor was called with

convVars ==
    <<variant, caller, table_name, schema, available_years, active_filters, pc,
      prompt, response, result, raised, trace, modelCalls, calls,
      totalModelCalls, execArg>>

VARIABLES
    llmPair,      \* the (query_text, explanation) pair to format, if any
    llmText,      \* the response text given to a parser
    llmBy,        \* the parser that was applied to it
    llmParsed,    \* what that parser returned
    fbPc,         \* where generate_sql_with_fallbacks stands
    fbAttempts,   \* the attempts it has invoked, in order
    fbYields,     \* what each of them returned
    fbSql,        \* what generate_sql_with_fallbacks returned
    fbRaised      \* the exception that left it, if any

llmVars ==
    <<llmPair, llmText, llmBy, llmParsed, fbPc, fbAttempts, fbYields, fbSql,
      fbRaised>>

VARIABLES
    context_cache,  \* self.context_cache: the entries of the dict, in insertion order
    cache_ttl,      \* self.cache_ttl
    now,            \* time.time()
    csessions,      \* the sessions that call the CachedQuerySystem
    cpc,            \* where each session's cleanup_stale_cache stands
    current_time,   \* current_time of each session's cleanup_stale_cache
    iterPos,        \* position of its dict iterator in the entries
    iterUsed,       \* size of the dict when the iterator was made
    stale_keys,     \* its stale_keys that are still to be deleted
    craised,        \* the exception that left a session's call, if any
    lastGet,        \* each session's last get_cached_context: argument and result
    lastPut,        \* for each key, the last cache_context made for it
    before,         \* the dict as a session's cleanup_stale_cache found it, until the session caches again
    ops             \* calls made so far

cacheVars ==
    <<context_cache, cache_ttl, now, csessions, cpc, current_time, iterPos,
      iterUsed, stale_keys, craised, lastGet, lastPut, before, ops>>

VARIABLES
    svc_instance,        \* SchemaService._instance: 0 for None, else the object
    svc_schema_dict,     \* _schema_dict of the instance
    svc_schema_objects,  \* _schema_objects of the instance
    lru_schema_dict,     \* what lru_cache holds for get_schema_dict
    lru_schema_objects,  \* what lru_cache holds for get_schema_objects
    schemaFile,          \* data/schema.json as it is on disk
    fileChanges,         \* times the file has changed on disk
    svcObjects,          \* SchemaService objects made so far
    svcConstructed,      \* the objects the constructions have returned
    svcOpens,            \* times the file was opened
    svcLoads,            \* times the file was read and parsed
    svcOpensAfterLoad,   \* times the file was opened after it had been loaded
    svcServed,           \* the schemas get_schema_dict has returned
    svcReturn,           \* what the last call returned or raised
    svcCalls             \* calls made so far

regVars ==
    <<svc_instance, svc_schema_dict, svc_schema_objects, lru_schema_dict,
      lru_schema_objects, schemaFile, fileChanges, svcObjects, svcConstructed, svcOpens,
      svcLoads, svcOpensAfterLoad, svcServed, svcReturn, svcCalls>>

\* the variables of the schema registry, the visualizer, the sidebar and the validator
VARIABLES
    vizDf,               \* the DataFrame of the current result
    vizDetected,         \* what detect_visualization_type returned for it
    preferred_viz_type,  \* st.session_state['preferred_viz_type']
    filters_viz_type,    \* st.session_state.active_filters['viz_type']
    current_query,       \* whether st.session_state.current_query is set
    renderedType,        \* the type the last result was drawn with
    consulted            \* what was asked for the type of the last result

vizVars ==
    <<vizDf, vizDetected, preferred_viz_type, filters_viz_type, current_query,
      renderedType, consulted>>

\* the variables of the validator
VARIABLES
    valSql,     \* the query validate_sql is given
    valAnswer,  \* what the model does when it is asked about the query
    valParsed,  \* what _parse_validation_result made of the answer
    valCustom,  \* what _perform_custom_validation returned
    valResult   \* what validate_sql returned

valVars == <<valSql, valAnswer, valParsed, valCustom, valResult>>

lateVars == <<regVars, vizVars, valVars>>

\* the variables of the components added to the model later
restVars == <<llmVars, cacheVars, lateVars>>

vars == <<sanVars, convVars, restVars>>

(***************************************************************************)
(* Bounds                                                                  *)
(***************************************************************************)
\* a query given to a sanitizer is the concatenation of at most MaxPieces pieces
MaxPieces == 4
\* a sanitizer is applied at most MaxApply times to one query
MaxApply == 2
\* generate_sql is called at most MaxCalls times in one run
MaxCalls == 2
\* the model is invoked at most MaxModelCalls times by one generate_sql call
MaxModelCalls == 2
\* the clock of the cache is read at the times 0..MaxTime
MaxTime == 2
\* the dict of the cache gets at most MaxSlots entries inserted
MaxSlots == 3
\* at most MaxOps calls are made on one CachedQuerySystem
MaxOps == 3
\* at most MaxSvcCalls calls are made on SchemaService
MaxSvcCalls == 4
\* data/schema.json changes on disk at most MaxFileChanges times
MaxFileChanges == 2

(***************************************************************************)
(* Characters                                                              *)
(***************************************************************************)
Letters ==
    {"a","b","c","d","e","f","g","h","i","j","k","l","m","n","o","p","q","r",
     "s","t","u","v","w","x","y","z","ä","ö",
     "A","B","C","D","E","F","G","H","I","J","K","L","M","N","O","P","Q","R",
     "S","T","U","V","W","X","Y","Z","Ä","Ö"}

Digits == {"0","1","2","3","4","5","6","7","8","9"}

\* the backtick character (U+0060), which a TLA+ string literal cannot hold
BT == "BACKTICK"

\* \w of a Python 3 str pattern: letters (Unicode), digits and the underscore
WordChars == Letters \cup Digits \cup {"_"}

IsWordChar(c) == c \in WordChars

\* \s of a Python 3 str pattern
IsSpace(c) == c \in {" ", "\n", "\t", "\r"}

\* the class [backtick \w] of the sanitizer's lookarounds
IsBacktickOrWord(c) == c = BT \/ IsWordChar(c)

(***************************************************************************)
(* Column names                                                            *)
(***************************************************************************)
Nettokertyma == <<"N","e","t","t","o","k","e","r","t","y","m","ä">>
Nettokertyma_ko_vuodelta == Nettokertyma \o <<"_","k","o","_","v","u","o","d","e","l","t","a">>
Kaytettavissa == <<"K","ä","y","t","e","t","t","ä","v","i","s","s","ä">>
Lisatalousarvio == <<"L","i","s","ä","t","a","l","o","u","s","a","r","v","i","o">>
Kirjanpitoyksikko == <<"K","i","r","j","a","n","p","i","t","o","y","k","s","i","k","k","ö">>
Loppusaldo == <<"L","o","p","p","u","s","a","l","d","o">>
Alkuperainen_talousarvio ==
    <<"A","l","k","u","p","e","r","ä","i","n","e","n","_","t","a","l","o","u","s","a","r","v","i","o">>
Voimassaoleva_talousarvio ==
    <<"V","o","i","m","a","s","s","a","o","l","e","v","a","_","t","a","l","o","u","s","a","r","v","i","o">>

\* NLToSQLConverter._handle_finnish_characters: the list, in its order
finnish_columns_to_ensure_backticked ==
    << Kaytettavissa, Lisatalousarvio, Nettokertyma, Nettokertyma_ko_vuodelta,
       Kirjanpitoyksikko, Loppusaldo, Alkuperainen_talousarvio,
       Voimassaoleva_talousarvio >>

\* EnhancedNLToSQLConverter._handle_finnish_characters: the list, in its order
finnish_columns ==
    << Kaytettavissa, Lisatalousarvio, Nettokertyma, Nettokertyma_ko_vuodelta,
       Kirjanpitoyksikko, Loppusaldo, Alkuperainen_talousarvio >>

\* SQLExecutor._sanitize_sql: the keys of the dict, in insertion order
executor_finnish_columns ==
    << Alkuperainen_talousarvio, Voimassaoleva_talousarvio, Nettokertyma,
       Kaytettavissa, Loppusaldo >>

(***************************************************************************)
(* String primitives                                                       *)
(***************************************************************************)
\* s[i:i+len(t)] == t, with i counted from 1
StartsAt(s, i, t) ==
    /\ i >= 1
    /\ i + Len(t) - 1 <= Len(s)
    /\ (Len(t) = 0 \/ s[i] = t[1])
    /\ SubSeq(s, i, i + Len(t) - 1) = t

\* the first position at or after i where t occurs in s, 0 if there is none
RECURSIVE Find(_, _, _)
Find(s, i, t) ==
    IF i + Len(t) - 1 > Len(s) THEN 0
    ELSE IF StartsAt(s, i, t) THEN i ELSE Find(s, i + 1, t)

\* str.replace(old, new): the non-overlapping occurrences, left to right
RECURSIVE ReplaceFrom(_, _, _, _)
ReplaceFrom(s, i, old, new) ==
    LET j == Find(s, i, old)
    IN  IF j = 0 THEN SubSeq(s, i, Len(s))
        ELSE SubSeq(s, i, j - 1) \o new \o ReplaceFrom(s, j + Len(old), old, new)

StrReplace(s, old, new) == ReplaceFrom(s, 1, old, new)

Range(f) == { f[x] : x \in DOMAIN f }

Reverse(f) == [ k \in 1..Len(f) |-> f[Len(f) + 1 - k] ]

\* "t in s" of two str
Contains(s, t) == Find(s, 1, t) # 0

(***************************************************************************)
(* The pattern: col neither preceded nor followed by a backtick or \w      *)
(***************************************************************************)
\* the plain substring match, without the lookarounds
MatchAtNoLookaround(s, i, col) == StartsAt(s, i, col)

\* the pattern matches at position i of s
MatchAt(s, i, col) ==
    /\ StartsAt(s, i, col)
    /\ (i = 1 \/ ~IsBacktickOrWord(s[i - 1]))
    /\ (i + Len(col) > Len(s) \/ ~IsBacktickOrWord(s[i + Len(col)]))

\* the first position at or after i where the pattern matches, 0 if none
RECURSIVE NextMatch(_, _, _)
NextMatch(s, i, col) ==
    IF i + Len(col) - 1 > Len(s) THEN 0
    ELSE IF MatchAt(s, i, col) THEN i ELSE NextMatch(s, i + 1, col)

\* re.search(pattern, s) is not None
ReSearch(s, col) == NextMatch(s, 1, col) # 0

\* re.sub: every non-overlapping match wrapped in backticks, left to right
RECURSIVE ReSubFrom(_, _, _)
ReSubFrom(s, i, col) ==
    LET j == NextMatch(s, i, col)
    IN  IF j = 0 THEN SubSeq(s, i, Len(s))
        ELSE SubSeq(s, i, j - 1) \o <<BT>> \o col \o <<BT>>
             \o ReSubFrom(s, j + Len(col), col)

ReSub(s, col) == ReSubFrom(s, 1, col)

(***************************************************************************)
(* The three sanitizers                                                    *)
(***************************************************************************)
\* the loop of NLToSQLConverter._handle_finnish_characters over cols[k..]
RECURSIVE BacktickColumns(_, _, _)
BacktickColumns(processed_sql, cols, k) ==
    IF k > Len(cols) THEN processed_sql
    ELSE BacktickColumns(
             IF ReSearch(processed_sql, cols[k])
             THEN ReSub(processed_sql, cols[k])
             ELSE processed_sql,
             cols, k + 1)

NL_handle_finnish_characters(sql_query) ==
    BacktickColumns(sql_query, finnish_columns_to_ensure_backticked, 1)

\* the loop of EnhancedNLToSQLConverter._handle_finnish_characters
RECURSIVE EnhancedBacktickColumns(_, _, _)
EnhancedBacktickColumns(sql_query, cols, k) ==
    IF k > Len(cols) THEN sql_query
    ELSE EnhancedBacktickColumns(ReSub(sql_query, cols[k]), cols, k + 1)

Enhanced_handle_finnish_characters(sql_query) ==
    EnhancedBacktickColumns(sql_query, finnish_columns, 1)

\* the three str.replace calls SQLExecutor._sanitize_sql makes for one column
SanitizeColumn(sql_query, col) ==
    LET quoted_col == <<BT>> \o col \o <<BT>>
        r1 == StrReplace(sql_query, <<" ">> \o col \o <<" ">>,
                                    <<" ">> \o quoted_col \o <<" ">>)
        r2 == StrReplace(r1, <<".">> \o col \o <<" ">>,
                             <<".">> \o quoted_col \o <<" ">>)
    IN  StrReplace(r2, <<"(">> \o col \o <<")">>,
                       <<"(">> \o quoted_col \o <<")">>)

RECURSIVE SanitizeColumns(_, _, _)
SanitizeColumns(sql_query, cols, k) ==
    IF k > Len(cols) THEN sql_query
    ELSE SanitizeColumns(SanitizeColumn(sql_query, cols[k]), cols, k + 1)

SQLExecutor_sanitize_sql(sql_query) ==
    SanitizeColumns(sql_query, executor_finnish_columns, 1)

(***************************************************************************)
(* RealDataProvider                                                        *)
(***************************************************************************)
\* the methods the class defines
RealDataProvider_methods ==
    {"__init__", "execute_query", "generate_example_data", "get_available_years"}

\* the query string RealDataProvider.execute_query hands to the BigQuery client
RealDataProvider_execute_query(query) == query

\* tests/test_real_data_provider.py
TestQuery ==
    <<"S","E","L","E","C","T"," ">> \o Nettokertyma \o <<","," ">> \o Lisatalousarvio
    \o <<" ","F","R","O","M"," ","b","u","d","g","e","t","_",
         "t","r","a","n","s","a","c","t","i","o","n","s">>

TestExpected ==
    <<"S","E","L","E","C","T"," ",BT>> \o Nettokertyma \o <<BT,","," ",BT>>
    \o Lisatalousarvio
    \o <<BT," ","F","R","O","M"," ","b","u","d","g","e","t","_",
         "t","r","a","n","s","a","c","t","i","o","n","s">>

(***************************************************************************)
(* Values                                                                  *)
(***************************************************************************)
\* Python's None where a str is expected: no sequence of characters equals it
None == <<"<None>">>

\* bool(x) of an Optional[str]
Truthy(x) == x # None /\ x # <<>>

\* a str that has at least one character (a chunk of a message may be empty)
NonEmptyStr(x) == x # None /\ \E i \in DOMAIN x : x[i] # ""

\* the end of the maximal run of whitespace that starts at i (i - 1 if none)
RECURSIVE SpaceEnd(_, _)
SpaceEnd(s, i) ==
    IF i <= Len(s) /\ IsSpace(s[i]) THEN SpaceEnd(s, i + 1) ELSE i - 1

\* the start of the maximal run of whitespace that ends at i (i + 1 if none)
RECURSIVE SpaceStart(_, _)
SpaceStart(s, i) ==
    IF i >= 1 /\ IsSpace(s[i]) THEN SpaceStart(s, i - 1) ELSE i + 1

\* str.strip()
Strip(s) ==
    LET a == SpaceEnd(s, 1) + 1
    IN  IF a > Len(s) THEN <<>> ELSE SubSeq(s, a, SpaceStart(s, Len(s)) - 1)

(***************************************************************************)
(* NLToSQLConverter._extract_sql_and_explanation                           *)
(***************************************************************************)
Fence == <<BT, BT, BT>>
FenceSql == Fence \o <<"s","q","l">>
ExplanationLabel == <<"E","x","p","l","a","n","a","t","i","o","n",":">>
NoExplanationProvided == <<"No explanation provided.">>

\* \s+ followed by the closing fence matches at p
ClosesAt(s, p) ==
    /\ p <= Len(s)
    /\ IsSpace(s[p])
    /\ StartsAt(s, SpaceEnd(s, p) + 1, Fence)

\* the first position at or after p where the closing part matches, 0 if none
RECURSIVE FirstClose(_, _)
FirstClose(s, p) ==
    IF p > Len(s) THEN 0
    ELSE IF ClosesAt(s, p) THEN p ELSE FirstClose(s, p + 1)

\* group(1) of the fenced-block pattern (opening fence tagged sql, whitespace,
\* a lazy group, whitespace, closing fence) tried at position i: the greedy
\* whitespace run first takes all the whitespace after the tag and gives one
\* character back only when nothing closes the block otherwise
SqlGroupAt(s, i) ==
    LET g == SpaceEnd(s, i + Len(FenceSql)) + 1
        k == g - (i + Len(FenceSql))
        p == FirstClose(s, g)
    IN  IF ~StartsAt(s, i, FenceSql) \/ k = 0 THEN None
        ELSE IF p # 0 THEN SubSeq(s, g, p - 1)
        ELSE IF k >= 2 /\ StartsAt(s, g, Fence) THEN <<>>
        ELSE None

\* re.search of the fenced-block pattern from position i on
RECURSIVE SqlSearch(_, _)
SqlSearch(s, i) ==
    IF i > Len(s) THEN None
    ELSE IF SqlGroupAt(s, i) # None THEN SqlGroupAt(s, i)
    ELSE SqlSearch(s, i + 1)

\* the lazy group of the explanation pattern ends before p: a blank line
\* starts at p, or p is the end of the text or its final newline
ExplanationEndsAt(s, p) ==
    \/ p = Len(s) + 1
    \/ StartsAt(s, p, <<"\n", "\n">>)
    \/ p = Len(s) /\ s[p] = "\n"

RECURSIVE ExplanationEnd(_, _)
ExplanationEnd(s, p) ==
    IF ExplanationEndsAt(s, p) THEN p ELSE ExplanationEnd(s, p + 1)

\* group(1) of the explanation pattern tried at position i
ExplanationGroupAt(s, i) ==
    LET w == i + Len(ExplanationLabel)
        g == SpaceEnd(s, w) + 1
    IN  IF ~StartsAt(s, i, ExplanationLabel) \/ g = w THEN None
        ELSE SubSeq(s, g, ExplanationEnd(s, g) - 1)

RECURSIVE ExplanationSearch(_, _)
ExplanationSearch(s, i) ==
    IF i > Len(s) THEN None
    ELSE IF ExplanationGroupAt(s, i) # None THEN ExplanationGroupAt(s, i)
    ELSE ExplanationSearch(s, i + 1)

ExtractSql(response_text) ==
    LET m == SqlSearch(response_text, 1)
    IN  IF m # None THEN Strip(m) ELSE None

\* the explanation without the placeholder: the empty string when the
\* pattern does not match
ExtractExplanationNoDefault(response_text) ==
    LET m == ExplanationSearch(response_text, 1)
    IN  IF m # None THEN Strip(m) ELSE <<>>

\* the explanation pattern compiled without re.DOTALL: the group cannot hold a
\* newline
ExtractExplanationNoDotAll(response_text) ==
    LET m == ExplanationSearch(response_text, 1)
    IN  IF m # None /\ ~Contains(m, <<"\n">>) THEN Strip(m)
        ELSE NoExplanationProvided

ExtractExplanation(response_text) ==
    LET m == ExplanationSearch(response_text, 1)
    IN  IF m # None THEN Strip(m) ELSE NoExplanationProvided

extract_sql_and_explanation(response_text) ==
    [query |-> ExtractSql(response_text),
     explanation |-> ExtractExplanation(response_text)]

(***************************************************************************)
(* LLMInterface.extract_sql_from_response                                  *)
(***************************************************************************)
\* str.upper() of the letters of the keywords (re.IGNORECASE)
Upper(c) ==
    CASE c = "s" -> "S" [] c = "e" -> "E" [] c = "l" -> "L" [] c = "c" -> "C"
      [] c = "t" -> "T" [] c = "f" -> "F" [] c = "r" -> "R" [] c = "o" -> "O"
      [] c = "m" -> "M" [] OTHER -> c

\* s[i:i+len(t)] equals t when letter case is ignored
StartsAtIgnoreCase(s, i, t) ==
    /\ i >= 1
    /\ i + Len(t) - 1 <= Len(s)
    /\ \A k \in 1..Len(t) : Upper(s[i + k - 1]) = Upper(t[k])

SELECT == <<"S","E","L","E","C","T">>
FROM == <<"F","R","O","M">>

\* group(1), stripped, of the pattern for a block tagged sql (optional
\* whitespace on both sides of a lazy group) tried at position i
TaggedBlockAt(s, i) ==
    LET g == i + Len(FenceSql)
        p == Find(s, g, Fence)
    IN  IF ~StartsAt(s, i, FenceSql) \/ p = 0 THEN None
        ELSE Strip(SubSeq(s, g, p - 1))

RECURSIVE TaggedBlockSearch(_, _)
TaggedBlockSearch(s, i) ==
    IF i > Len(s) THEN None
    ELSE IF TaggedBlockAt(s, i) # None THEN TaggedBlockAt(s, i)
    ELSE TaggedBlockSearch(s, i + 1)

\* group(1), stripped, of the pattern for any block whose content starts with
\* SELECT, tried at position i
SelectBlockAt(s, i) ==
    LET a == SpaceEnd(s, i + Len(Fence)) + 1
        p == Find(s, a + Len(SELECT), Fence)
    IN  IF ~StartsAt(s, i, Fence) \/ ~StartsAtIgnoreCase(s, a, SELECT) \/ p = 0
        THEN None
        ELSE Strip(SubSeq(s, a, p - 1))

RECURSIVE SelectBlockSearch(_, _)
SelectBlockSearch(s, i) ==
    IF i > Len(s) THEN None
    ELSE IF SelectBlockAt(s, i) # None THEN SelectBlockAt(s, i)
    ELSE SelectBlockSearch(s, i + 1)

\* FROM, whitespace and one more character occur at j
FromClauseAt(s, j) ==
    /\ StartsAtIgnoreCase(s, j, FROM)
    /\ j + Len(FROM) + 1 <= Len(s)
    /\ IsSpace(s[j + Len(FROM)])

\* group(1), stripped, of the pattern for a bare SELECT ... FROM ... span tried
\* at position i: the trailing greedy part takes the rest of the text
BareSelectAt(s, i) ==
    LET w == i + Len(SELECT)
    IN  IF /\ StartsAtIgnoreCase(s, i, SELECT)
           /\ w <= Len(s)
           /\ IsSpace(s[w])
           /\ \E j \in (w + 2)..Len(s) : FromClauseAt(s, j)
        THEN Strip(SubSeq(s, i, Len(s)))
        ELSE None

RECURSIVE BareSelectSearch(_, _)
BareSelectSearch(s, i) ==
    IF i > Len(s) THEN None
    ELSE IF BareSelectAt(s, i) # None THEN BareSelectAt(s, i)
    ELSE BareSelectSearch(s, i + 1)

\* the strategies in the order in which a match of an earlier one hides the
\* later ones
LLM_extract_sql_from_response(content) ==
    LET tagged == TaggedBlockSearch(content, 1)
        block == SelectBlockSearch(content, 1)
        bare == BareSelectSearch(content, 1)
    IN  IF tagged # None THEN tagged
        ELSE IF block # None THEN block
        ELSE bare

\* LLMInterface._extract_sql_and_explanation: the same two patterns as the
\* converter's parser
LLM_extract_sql_and_explanation(response_text) ==
    [query |-> ExtractSql(response_text),
     explanation |-> ExtractExplanation(response_text)]

(***************************************************************************)
(* LLMInterface.generate_sql_with_fallbacks and its attempts               *)
(***************************************************************************)
\* the attributes LLMInterface.__init__ sets on the object
LLMInterface_attributes == {"project_id", "location", "gemini_model", "api_key"}

\* generate_sql_query: self.model.generate_content, extract_sql_from_response
\* and "if not sql: return None"; every exception, the AttributeError of a
\* missing self.model included, is caught and gives None
LLM_generate_sql_query(attributes, outcome) ==
    IF "model" \notin attributes THEN None
    ELSE IF outcome.kind # "text" THEN None
    ELSE LET sql == LLM_extract_sql_from_response(outcome.text)
         IN  IF sql # None /\ sql # <<>> THEN sql ELSE None

\* generate_structured_sql_query: the body is "pass"
LLM_generate_structured_sql_query == None

\* generate_sql_query_with_examples: the body is "pass"
LLM_generate_sql_query_with_examples == None

\* an attempt left out: the third attempt follows the first
FbAfterPlainSkipping(sql) ==
    IF sql # None /\ sql # <<>> THEN "done" ELSE "examples"

\* "if sql: return sql" after each attempt of generate_sql_with_fallbacks
FbAfterPlain(sql) ==
    IF sql # None /\ sql # <<>> THEN "done" ELSE "structured"

FbAfterStructured(sql) ==
    IF sql # None /\ sql # <<>> THEN "done" ELSE "examples"

\* what generate_sql_with_fallbacks returns after its last attempt
FbReturn(sql) == IF sql # None /\ sql # <<>> THEN sql ELSE None

(***************************************************************************)
(* NLToSQLConverter._build_prompt                                          *)
(***************************************************************************)
\* dict.get(key): the value in a one-element sequence, the empty sequence for None
Get(d, key) == IF key \in DOMAIN d THEN <<d[key]>> ELSE <<>>

\* bool(x) of an Optional[int]
TruthyInt(o) == o # <<>> /\ o[1] # 0

Min(S) == CHOOSE x \in S : \A y \in S : x <= y
Max(S) == CHOOSE x \in S : \A y \in S : x >= y

\* filter_instructions without the test for one single year
FilterInstructionsRangeOnly(filters) ==
    LET year_start_filter == Get(filters, "year_start")
        year_end_filter == Get(filters, "year_end")
    IN  IF TruthyInt(year_start_filter) /\ TruthyInt(year_end_filter)
        THEN << <<"Data must cover the year range", year_start_filter[1],
                  year_end_filter[1]>> >>
        ELSE <<>>

\* filter_instructions
FilterInstructions(filters) ==
    LET year_start_filter == Get(filters, "year_start")
        year_end_filter == Get(filters, "year_end")
    IN  IF TruthyInt(year_start_filter) /\ TruthyInt(year_end_filter)
        THEN IF year_start_filter = year_end_filter
             THEN << <<"Data must be filtered for the year", year_start_filter[1]>> >>
             ELSE << <<"Data must cover the year range", year_start_filter[1],
                       year_end_filter[1]>> >>
        ELSE <<>>

\* min_year and max_year are bound only inside "if available_years:"
YearBounds(years) ==
    IF years # <<>> THEN <<Min(Range(years)), Max(Range(years))>> ELSE <<>>

\* the f-string of _build_prompt, section by section; instruction 3 reads
\* min_year and max_year whether or not they were bound
NL_build_prompt(table, fields, filters, years, natural_language_query) ==
    IF YearBounds(years) = <<>>
    THEN [raised |-> "UnboundLocalError", sections |-> <<>>]
    ELSE [raised |-> "none",
          sections |->
            << <<"role">>,
               <<"table", table>>,
               <<"fields", fields>>,
               <<"glossary">>,
               <<"available_years", YearBounds(years)>>,
               <<"filters", FilterInstructions(filters)>>,
               <<"instructions", table, YearBounds(years)>>,
               <<"example", table>>,
               <<"question", natural_language_query>> >>]

\* PromptTemplates.nl_to_sql_prompt, section by section
Enhanced_build_prompt(table, fields, natural_language_query) ==
    [raised |-> "none",
     sections |->
        << <<"role">>, <<"table", table>>, <<"fields", fields>>, <<"glossary">>,
           <<"examples", table>>, <<"question", natural_language_query>>,
           <<"format">> >>]

NoPrompt == [raised |-> "none", sections |-> <<>>]

(***************************************************************************)
(* _clean_sql                                                              *)
(***************************************************************************)
\* the position of the last "." of s, 0 if there is none
RECURSIVE LastDot(_, _)
LastDot(s, i) == IF i = 0 THEN 0 ELSE IF s[i] = "." THEN i ELSE LastDot(s, i - 1)

From == <<"F","R","O","M"," ">>

NL_clean_sql(sql_query, table) ==
    LET fqtn_from_config_clean == StrReplace(table, <<BT>>, <<>>)
        short_table_name_from_config ==
            SubSeq(fqtn_from_config_clean,
                   LastDot(fqtn_from_config_clean, Len(fqtn_from_config_clean)) + 1,
                   Len(fqtn_from_config_clean))
        target_fqtn_with_backticks == <<BT>> \o fqtn_from_config_clean \o <<BT>>
        llm_from_clause_fragment ==
            From \o <<BT>> \o short_table_name_from_config \o <<BT>>
        correct_from_clause == From \o target_fqtn_with_backticks
    IN  NL_handle_finnish_characters(
            IF Contains(sql_query, llm_from_clause_fragment)
            THEN StrReplace(sql_query, llm_from_clause_fragment, correct_from_clause)
            ELSE sql_query)

Enhanced_clean_sql(sql_query, table) ==
    Enhanced_handle_finnish_characters(
        StrReplace(sql_query, <<BT>> \o table \o <<BT>>, <<BT>> \o table \o <<BT>>))

(***************************************************************************)
(* generate_sql                                                            *)
(***************************************************************************)
NoResult == [query |-> None, explanation |-> None]

TableInformationNotSet ==
    [query |-> None,
     explanation |-> <<"Table information not set", ". Call set_table_info() first.">>]

\* "if not self.table_name or not self.schema"
TableInfoMissingBoth(table, fields) == table = <<>> /\ fields = <<>>

TableInfoMissing(table, fields) == table = <<>> \/ fields = <<>>

\* the except clauses of NLToSQLConverter.generate_sql, with the message dropped
NL_except_no_message(exc, msg) ==
    [query |-> None, explanation |-> <<"Error generating SQL">>]

\* the except clauses of NLToSQLConverter.generate_sql
NL_except(exc, msg) ==
    [query |-> None,
     explanation |->
        IF exc = "GoogleAPIError"
        THEN <<"Error generating SQL: Google API Error - ", msg>>
        ELSE IF exc = "AttributeError"
        THEN <<"Error generating SQL: SDK Error - ", msg>>
        ELSE <<"Error generating SQL: Unexpected error - ", msg>>]

\* the except clauses of EnhancedNLToSQLConverter.generate_sql
Enhanced_except(exc, msg) ==
    [query |-> None,
     explanation |->
        IF exc = "GoogleAPIError"
        THEN <<"Error generating SQL: ", msg>>
        ELSE <<"Unexpected error: ", msg>>]

Except(v, exc, msg) ==
    IF v = "nl" THEN NL_except(exc, msg) ELSE Enhanced_except(exc, msg)

\* a model call that is made again after it failed
PcAfterInvokeRetrying(outcome) ==
    IF outcome.kind = "error" THEN "PromptBuilt" ELSE "ModelInvoked"

\* where generate_sql stands after model.generate_content: an exception takes
\* it to an except clause, which returns
PcAfterInvoke(outcome) ==
    IF outcome.kind = "error" THEN "ModelFailed" ELSE "ModelInvoked"

\* a parsed query that is returned without being cleaned
PcAfterParseSkipping(sql_query) == "ParseFailed"

\* "if sql_query: sql_query = self._clean_sql(sql_query)"
PcAfterParse(sql_query) == IF Truthy(sql_query) THEN "Parsed" ELSE "ParseFailed"

\* json.loads(response.text) and result.get("sql") of the enhanced converter:
\* the result dict, or the exception they raise
Enhanced_parse(outcome) ==
    IF outcome.json = "invalid"
    THEN [exc |-> "JSONDecodeError", msg |-> "Expecting value", value |-> NoResult]
    ELSE IF outcome.json = "array"
    THEN [exc |-> "AttributeError", msg |-> "'list' object has no attribute 'get'",
          value |-> NoResult]
    ELSE [exc |-> "none", msg |-> "",
          value |-> [query |-> IF "sql" \in DOMAIN outcome.fields
                               THEN outcome.fields["sql"] ELSE None,
                     explanation |-> IF "explanation" \in DOMAIN outcome.fields
                                     THEN outcome.fields["explanation"] ELSE None]]

(***************************************************************************)
(* Callers                                                                 *)
(***************************************************************************)
NotCalled == <<"<not called>">>

\* FinancialDataApp._generate_sql_from_nl: an exception of generate_sql becomes
\* a failure result
App_generate_sql_from_nl(r, exc) ==
    IF exc # "none"
    THEN [query |-> None, explanation |-> <<"Error generating SQL: ", exc>>]
    ELSE r

\* FinancialDataApp.handle_query: "if not sql_query: ... return"
AppExecutes(sql_query) == Truthy(sql_query)

(***************************************************************************)
(* Queries given to the sanitizers                                         *)
(***************************************************************************)
\* the pieces the generated queries are concatenated from: a protected name, a
\* run of word characters (with the name, a longer identifier), a space, a
\* backtick and a single quote
SanPieces ==
    << Nettokertyma, <<"_","k","o","_","v","u","o","d","e","l","t","a">>,
       <<" ">>, <<BT>>, <<"'">> >>

\* queries in the shapes the prompts' examples give the model
SampleQueries ==
    { TestQuery,
      <<"S","E","L","E","C","T"," ">> \o Nettokertyma \o <<" ">> \o Nettokertyma
          \o <<" ","F","R","O","M"," ","t">>,
      <<"S","U","M","(">> \o Nettokertyma \o <<")">>,
      <<"t",".">> \o Loppusaldo \o <<" ",">"," ","0">>,
      <<"S","U","M","(",BT>> \o Voimassaoleva_talousarvio \o <<BT,")">>,
      <<"x"," ","="," ","\"">> \o Loppusaldo \o <<"\"">>,
      <<"S","u","b">> \o Kaytettavissa \o <<"X"," ">> \o Alkuperainen_talousarvio }

RECURSIVE Flatten(_, _)
Flatten(pieces, idx) ==
    IF idx = <<>> THEN <<>> ELSE pieces[Head(idx)] \o Flatten(pieces, Tail(idx))

SanQueries ==
    SampleQueries \cup
    { Flatten(SanPieces, idx) :
        idx \in UNION { [1..n -> 1..Len(SanPieces)] : n \in 0..MaxPieces } }

(***************************************************************************)
(* What the converter is configured with and what the model answers        *)
(***************************************************************************)
Tables == { <<>>, <<"p",".","d",".","t">> }

Schemas ==
    { <<>>,
      << [name |-> "Vuosi", type |-> "INTEGER", description |-> "Year"],
         [name |-> "Nettokertymä", type |-> "FLOAT", description |-> "Net accumulation"] >> }

AvailableYears == { <<>>, <<2022>>, <<2021, 2022, 2023>> }

NoFilters == [key \in {} |-> 0]

ActiveFilters ==
    { NoFilters,
      [year_start |-> 2022, year_end |-> 2022],
      [year_start |-> 2021, year_end |-> 2023],
      [year_start |-> 2022],
      [year_end |-> 2023] }

Question == "defense budget 2022"

\* the query of the prompt's worked example, with the short table name
Select == <<"S","E","L","E","C","T"," ">>
ModelQuery == Select \o Nettokertyma \o <<" ">> \o From \o <<BT,"t",BT>>
\* the same query with the short table name not in backticks
BareTableQuery == Select \o Nettokertyma \o <<" ">> \o From \o <<"t">>

TextOutcome(t) ==
    [kind |-> "text", exc |-> "none", msg |-> "", text |-> t,
     json |-> "none", fields |-> NoFilters]

ErrorOutcome(e, m) ==
    [kind |-> "error", exc |-> e, msg |-> m, text |-> <<>>,
     json |-> "none", fields |-> NoFilters]

JsonOutcome(j, f) ==
    [kind |-> "json", exc |-> "none", msg |-> "", text |-> <<>>,
     json |-> j, fields |-> f]

\* response texts: an optional sql fence, query and closing fence, then an
\* optional explanation section, with or without the whitespace in between
ResponseTexts ==
    { open \o ws1 \o body \o ws2 \o close \o label \o ws3 \o expl :
        open \in {<<>>, FenceSql}, ws1 \in {<<>>, <<"\n">>},
        body \in {<<>>, ModelQuery, BareTableQuery}, ws2 \in {<<>>, <<"\n">>},
        close \in {<<>>, Fence},
        label \in {<<>>, <<"\n","\n">> \o ExplanationLabel},
        ws3 \in {<<>>, <<" ">>}, expl \in {<<>>, <<"o","k">>} }

JsonFields ==
    { NoFilters,
      [sql |-> ModelQuery, explanation |-> <<"o","k">>],
      [sql |-> ModelQuery],
      [sql |-> <<>>, explanation |-> <<"o","k">>],
      [explanation |-> <<"o","k">>],
      [query |-> ModelQuery, explanation |-> <<"o","k">>] }

ErrorOutcomes ==
    { ErrorOutcome(e, m) :
        e \in {"GoogleAPIError", "AttributeError", "ConnectionError"},
        m \in {"503 Service Unavailable", "timed out"} }

ModelOutcomes(v) ==
    ErrorOutcomes \cup
    IF v = "nl"
    THEN { TextOutcome(t) : t \in ResponseTexts }
    ELSE { JsonOutcome("invalid", NoFilters), JsonOutcome("array", NoFilters) }
         \cup { JsonOutcome("object", f) : f \in JsonFields }

NoOutcome == [kind |-> "none", exc |-> "none", msg |-> "", text |-> <<>>,
              json |-> "none", fields |-> NoFilters]

\* the converter before any call, as the sanitizers' specification leaves it
ConvIdle ==
    /\ variant = "nl"
    /\ caller = "direct"
    /\ table_name = <<>>
    /\ schema = <<>>
    /\ available_years = <<>>
    /\ active_filters = NoFilters
    /\ pc = "Idle"
    /\ prompt = NoPrompt
    /\ response = NoOutcome
    /\ result = NoResult
    /\ raised = "none"
    /\ trace = <<>>
    /\ modelCalls = 0
    /\ calls = 0
    /\ totalModelCalls = 0
    /\ execArg = NotCalled

\* the sanitizers before any query, as the converter's specification leaves them
SanIdle ==
    /\ sanQuery = <<>>
    /\ sanText = <<>>
    /\ sanPrev = <<>>
    /\ sanBy = "none"
    /\ sanCount = 0
    /\ testOutcome = "notrun"

(***************************************************************************)
(* What the parsers of LLMInterface and of the converter are given         *)
(***************************************************************************)
NoPair == [query |-> None, explanation |-> None]

\* the query of the prompt's worked example in lower case
LowerQuery ==
    <<"s","e","l","e","c","t"," ">> \o Nettokertyma
    \o <<" ","f","r","o","m"," ",BT,"t",BT>>

\* query texts: the example's query, a query over two lines, a query with a
\* space in front and a query that quotes the explanation label
PairQueries ==
    { ModelQuery,
      Select \o Nettokertyma \o <<"\n">> \o From \o <<BT,"t",BT>>,
      <<" ">> \o ModelQuery,
      Select \o <<"'">> \o ExplanationLabel \o <<" ","x","'">> }

\* explanations: one line, two lines, two paragraphs, a trailing newline and
\* the empty explanation
PairExplanations ==
    { <<"o","k">>,
      <<"o","k","\n","n","o">>,
      <<"o","k","\n","\n","n","o">>,
      <<"o","k","\n">>,
      <<>> }

Pairs ==
    { [query |-> q, explanation |-> e] : q \in PairQueries, e \in PairExplanations }

\* the convention the prompt asks the model to answer in: the query in a block
\* tagged sql, then the label and the explanation
Canonical(query_text, explanation) ==
    FenceSql \o <<"\n">> \o query_text \o <<"\n">> \o Fence \o <<"\n">>
    \o ExplanationLabel \o <<" ">> \o explanation

\* responses that keep to the convention only in part: some text in front, a
\* block with the tag, without it or no block at all, the query in either case
ChainTexts ==
    { pre \o open \o ws \o body \o close :
        pre \in {<<>>, <<"o","k"," ">>},
        open \in {<<>>, Fence, FenceSql},
        ws \in {<<>>, <<"\n">>},
        body \in {<<>>, ModelQuery, LowerQuery},
        close \in {<<>>, <<"\n">> \o Fence} }
    \cup { FenceSql \o <<"\n">> \o Fence \o <<"\n">> \o Fence \o ModelQuery \o Fence }

LLMTexts == ResponseTexts \cup ChainTexts

\* what the model call of an attempt gives
FbOutcomes ==
    ErrorOutcomes
    \cup { TextOutcome(t) : t \in {<<>>, Canonical(ModelQuery, <<"o","k">>), ModelQuery} }

(***************************************************************************)
(* CachedQuerySystem: the schema hash and the dict of cached contexts       *)
(***************************************************************************)
\* A schema is a list of field records; a record is written as the sequence
\* of its <<key, value>> items in the order the dict holds them.

\* the keys of the field records, in the order sort_keys puts them
SortedKeys == <<"description", "name", "type">>

\* the items of a record under one key
ItemsOf(field, key) == SelectSeq(field, LAMBDA item : item[1] = key)

\* one record as json.dumps(..., sort_keys=True) writes it: items by key
DumpsRecord(field) ==
    ItemsOf(field, SortedKeys[1]) \o ItemsOf(field, SortedKeys[2])
        \o ItemsOf(field, SortedKeys[3])

\* json.dumps(schema) without sort_keys: each record is written as it is held
json_dumps(fields) == fields

\* json.dumps(schema, sort_keys=True): the list keeps its order, each record
\* is written with its keys sorted
json_dumps_sort_keys(fields) == [i \in DOMAIN fields |-> DumpsRecord(fields[i])]

\* hashlib.md5(text).hexdigest(): one digest per text
md5_hexdigest(text) == <<"md5", text>>

\* CachedQuerySystem.get_schema_hash
get_schema_hash(fields) == md5_hexdigest(json_dumps_sort_keys(fields))

\* a place of the dict whose entry was deleted
Hole == [key |-> <<"<deleted>">>, context |-> "<None>", timestamp |-> 0, schema |-> <<>>]

\* dict.get finding nothing
NoEntry == [key |-> <<"<missing>">>, context |-> "<None>", timestamp |-> 0, schema |-> <<>>]

\* the value None of a context
NoContext == "<None>"

\* the places of the dict that hold an entry
Live(cache) == { i \in DOMAIN cache : cache[i] # Hole }

\* len(dict)
DictSize(cache) == Cardinality(Live(cache))

\* the place of a key in the dict, 0 when the key is not in it
IndexOf(cache, key) ==
    IF \E i \in Live(cache) : cache[i].key = key
    THEN CHOOSE i \in Live(cache) : cache[i].key = key
    ELSE 0

\* dict.get(key)
DictGet(cache, key) ==
    IF IndexOf(cache, key) = 0 THEN NoEntry ELSE cache[IndexOf(cache, key)]

\* dict[key] = entry: a known key keeps its place, a new one is appended
DictSet(cache, key, entry) ==
    IF IndexOf(cache, key) = 0
    THEN Append(cache, entry)
    ELSE [cache EXCEPT ![IndexOf(cache, key)] = entry]

\* del dict[key], for a key that is in the dict
DictDel(cache, key) == [cache EXCEPT ![IndexOf(cache, key)] = Hole]

\* CachedQuerySystem.get_cached_context without the test of the age
get_cached_context_no_expiry(cache, schema_hash, time, ttl) ==
    LET cached == DictGet(cache, schema_hash)
    IN  IF cached # NoEntry THEN cached.context ELSE NoContext

\* CachedQuerySystem.get_cached_context with >= in the place of >
get_cached_context_inclusive(cache, schema_hash, time, ttl) ==
    LET cached == DictGet(cache, schema_hash)
    IN  IF cached # NoEntry /\ cached.timestamp >= time - ttl
        THEN cached.context
        ELSE NoContext

\* CachedQuerySystem.get_cached_context
get_cached_context(cache, schema_hash, time, ttl) ==
    LET cached == DictGet(cache, schema_hash)
    IN  IF cached # NoEntry /\ cached.timestamp > time - ttl
        THEN cached.context
        ELSE NoContext

\* CachedQuerySystem.cache_context
cache_context(cache, schema_hash, context, time, fields) ==
    DictSet(cache, schema_hash,
            [key |-> schema_hash, context |-> context, timestamp |-> time,
             schema |-> fields])

\* the test of one entry with < in the place of <=
IsStaleStrict(value, time, ttl) == value.timestamp < time - ttl

\* the test cleanup_stale_cache makes of one entry
IsStale(value, time, ttl) == value.timestamp <= time - ttl

\* the dict after a cleanup_stale_cache that nothing interleaves with, run
\* when the clock reads time
cleanup_stale_cache(cache, time, ttl) ==
    [i \in DOMAIN cache |->
        IF i \in Live(cache) /\ IsStale(cache[i], time, ttl) THEN Hole ELSE cache[i]]

\* the next place a dict iterator at place pos yields, 0 at the end
NextLive(cache, pos) ==
    IF \E i \in Live(cache) : i > pos
    THEN CHOOSE i \in Live(cache) : i > pos /\ \A j \in Live(cache) : j > pos => i <= j
    ELSE 0

\* LLMInterface before any call, as the other specifications leave it
LLMIdle ==
    /\ llmPair = NoPair
    /\ llmText = None
    /\ llmBy = "none"
    /\ llmParsed = NoResult
    /\ fbPc = "idle"
    /\ fbAttempts = <<>>
    /\ fbYields = <<>>
    /\ fbSql = NotCalled
    /\ fbRaised = "none"

(***************************************************************************)
(* Inputs of the CachedQuerySystem                                          *)
(***************************************************************************)
\* ttl of CachedQuerySystem.__init__ when none is given
DefaultTTL == 3600

\* field records of a schema
FieldVuosi ==
    << <<"name", "Vuosi">>, <<"type", "INTEGER">>, <<"description", "Year">> >>

\* the same record with its keys in another order
FieldVuosiKeys ==
    << <<"type", "INTEGER">>, <<"description", "Year">>, <<"name", "Vuosi">> >>

FieldKk ==
    << <<"name", "Kk">>, <<"type", "INTEGER">>, <<"description", "Month">> >>

\* the record of Kk with another description
FieldKkChanged ==
    << <<"name", "Kk">>, <<"type", "INTEGER">>, <<"description", "Kuukausi">> >>

\* the schemas a context is cached for: one schema, the same schema with the
\* keys of a record reordered, the same schema with its fields reordered, and
\* a schema with a changed field
CacheSchemas ==
    { <<FieldVuosi, FieldKk>>, <<FieldVuosiKeys, FieldKk>>, <<FieldKk, FieldVuosi>>,
      <<FieldVuosi, FieldKkChanged>> }

\* the keys of the cache
CacheKeys == { get_schema_hash(fields) : fields \in CacheSchemas }

\* the contexts that are cached
Contexts == {"c1", "c2"}

\* the ttl the CachedQuerySystem is constructed with
TTLs == {1, 2}

\* the sessions of the application that share one CachedQuerySystem
Sessions == {1, 2}

\* a session that has not called get_cached_context
NoGet ==
    [schema |-> <<>>, key |-> <<"<none>">>, time |-> 0, value |-> NoContext,
     put |-> NoEntry, from |-> <<>>]

\* a CachedQuerySystem right after __init__, with nobody calling it
CacheFresh ==
    /\ context_cache = <<>>
    /\ now = 0
    /\ cpc = [s \in Sessions |-> "idle"]
    /\ current_time = [s \in Sessions |-> 0]
    /\ iterPos = [s \in Sessions |-> 0]
    /\ iterUsed = [s \in Sessions |-> 0]
    /\ stale_keys = [s \in Sessions |-> <<>>]
    /\ craised = [s \in Sessions |-> "none"]
    /\ lastGet = [s \in Sessions |-> NoGet]
    /\ lastPut = [k \in CacheKeys |-> NoEntry]
    /\ before = [s \in Sessions |-> <<>>]
    /\ ops = 0

\* the CachedQuerySystem as the other specifications leave it
CacheIdle ==
    /\ CacheFresh
    /\ cache_ttl = DefaultTTL
    /\ csessions = {}

(***************************************************************************)
(* SchemaService: the singleton and its cached schema                       *)
(***************************************************************************)
\* an attribute or a cache slot that holds nothing yet
Unset == [set |-> FALSE, val |-> <<>>]

\* an attribute or a cache slot that holds a value
Holding(v) == [set |-> TRUE, val |-> v]

\* the states data/schema.json can be in on disk
FileStates == {"missing", "malformed", "v1", "v2"}

\* json.load of a well-formed data/schema.json
json_load(file) ==
    IF file = "v1"
    THEN << [name |-> "Vuosi", type |-> "INTEGER", description |-> "Year"],
            [name |-> "Kk", type |-> "INTEGER"] >>
    ELSE << [name |-> "Vuosi", type |-> "INTEGER", mode |-> "REQUIRED"] >>

\* bigquery.SchemaField(name=..., field_type=..., mode=..., description=...)
SchemaField(field) ==
    [name |-> field.name,
     field_type |-> field.type,
     mode |-> IF "mode" \in DOMAIN field THEN field.mode ELSE "NULLABLE",
     description |-> IF "description" \in DOMAIN field THEN field.description ELSE ""]

\* SchemaService.__new__: the object it returns when n objects exist
SchemaService_new(instance, n) == IF instance = 0 THEN n + 1 ELSE instance

\* get_schema_dict goes to the file on every call
NeedsLoadAlways(lru, schema_dict) == TRUE

\* get_schema_dict goes to the file: nothing cached by lru_cache and
\* self._schema_dict is None
NeedsLoad(lru, schema_dict) == ~lru.set /\ ~schema_dict.set

\* SchemaService.get_schema_dict: what it returns or raises, what it leaves
\* in lru_cache and in self._schema_dict, and whether it opened the file
SchemaService_get_schema_dict(lru, schema_dict, file) ==
    IF NeedsLoad(lru, schema_dict)
    THEN CASE file = "missing" ->
                  [raised |-> "FileNotFoundError", ret |-> <<>>, lru |-> lru,
                   schema_dict |-> schema_dict, opened |-> FALSE, loaded |-> FALSE]
           [] file = "malformed" ->
                  [raised |-> "JSONDecodeError", ret |-> <<>>, lru |-> lru,
                   schema_dict |-> schema_dict, opened |-> TRUE, loaded |-> FALSE]
           [] OTHER ->
                  [raised |-> "none", ret |-> json_load(file),
                   lru |-> Holding(json_load(file)),
                   schema_dict |-> Holding(json_load(file)),
                   opened |-> TRUE, loaded |-> TRUE]
    ELSE LET held == IF lru.set THEN lru.val ELSE schema_dict.val
         IN  [raised |-> "none", ret |-> held, lru |-> Holding(held),
              schema_dict |-> schema_dict, opened |-> FALSE, loaded |-> FALSE]

\* the list get_schema_objects builds from the schema
SchemaObjects(schema_dict) == [i \in DOMAIN schema_dict |-> SchemaField(schema_dict[i])]

\* a call that has not been made
NoReturn == [call |-> "none", raised |-> "none", ret |-> <<>>]

\* SchemaService before the module is imported, as the other specifications leave it
RegIdle ==
    /\ svc_instance = 0
    /\ svc_schema_dict = Unset
    /\ svc_schema_objects = Unset
    /\ lru_schema_dict = Unset
    /\ lru_schema_objects = Unset
    /\ schemaFile = "v1"
    /\ fileChanges = 0
    /\ svcObjects = 0
    /\ svcConstructed = {}
    /\ svcOpens = 0
    /\ svcLoads = 0
    /\ svcOpensAfterLoad = 0
    /\ svcServed = {}
    /\ svcReturn = NoReturn
    /\ svcCalls = 0

(***************************************************************************)
(* FinancialDataVisualizer.detect_visualization_type and its callers        *)
(***************************************************************************)
\* A DataFrame is its number of rows and its columns; a column is its name
\* and whether select_dtypes(include=['number']) selects it.

\* str.lower() of a column name
Lower(name) ==
    CASE name = "Vuosi" -> "vuosi"
      [] name = "Quarter" -> "quarter"
      [] name = "Hallinnonala" -> "hallinnonala"
      [] OTHER -> name

\* the names detect_visualization_type takes for time columns
TimeNames == {"year", "vuosi", "month", "kk", "quarter"}

\* the names detect_visualization_type takes for category columns
CategoryNames ==
    {"hallinnonala", "ministry", "administrative_branch", "paaluokka", "momentti", "luku"}

\* numeric_columns
NumericColumns(df) == SelectSeq(df.columns, LAMBDA col : col.numeric)

\* time_columns
TimeColumns(df) == SelectSeq(df.columns, LAMBDA col : Lower(col.name) \in TimeNames)

\* category_columns
CategoryColumns(df) == SelectSeq(df.columns, LAMBDA col : Lower(col.name) \in CategoryNames)

\* the branches of detect_visualization_type from the second on
DetectAfterFirstRule(df) ==
    LET numeric == Len(NumericColumns(df))
    IN  IF df.rows = 1 /\ numeric > 1 THEN "bar"
        ELSE IF Len(TimeColumns(df)) >= 1 /\ numeric >= 1
        THEN IF df.rows > 1
             THEN IF numeric > 2 THEN "time_bar"
                  ELSE IF numeric > 1 THEN "time_multi_line"
                  ELSE "time_line"
             ELSE "single_value"
        ELSE IF CategoryColumns(df) # <<>> /\ numeric >= 1
        THEN IF df.rows <= 8 THEN "pie" ELSE "bar"
        ELSE IF df.rows > 10 /\ numeric >= 1
        THEN IF \E i \in DOMAIN df.columns : Lower(df.columns[i].name) \in {"year", "vuosi"}
             THEN "time_bar"
             ELSE "bar"
        ELSE IF df.rows <= 10 /\ numeric >= 1 THEN "bar"
        ELSE "table"

\* FinancialDataVisualizer.detect_visualization_type
detect_visualization_type(df) ==
    IF df.rows = 1 /\ Len(NumericColumns(df)) >= 1
    THEN "single_value"
    ELSE DetectAfterFirstRule(df)

\* the column names _render_visualization_tab gives df_viz
RenamedColumn(name) ==
    CASE Lower(name) = "vuosi" -> "year"
      [] OTHER -> Lower(name)

\* df_viz of _render_visualization_tab
RenamedFrame(df) ==
    [rows |-> df.rows,
     columns |-> [i \in DOMAIN df.columns |->
                     [name |-> RenamedColumn(df.columns[i].name),
                      numeric |-> df.columns[i].numeric]]]

\* a key that st.session_state or a filter dict does not hold
Absent == "<absent>"

\* what llm_interface.recommend_visualization(query, columns, head) gives
\* _recommend_visualization: the method takes (query, df), so the call raises
LLM_recommend_visualization == "TypeError"

\* FinancialDataApp._recommend_visualization: the type it returns and whether
\* it called the model
App_recommend_visualization(preferred, recommendation) ==
    IF preferred # Absent /\ preferred # "" /\ preferred # "auto"
    THEN [viz_type |-> preferred, consulted |-> {}]
    ELSE [viz_type |-> IF recommendation = "TypeError" THEN "table" ELSE recommendation,
          consulted |-> {"model"}]

\* VisualizationDisplay._render_visualization_tab: the type it draws and
\* whether it called detect_visualization_type
RenderVisualizationTab(df, viz_type) ==
    IF viz_type = ""
    THEN [viz_type |-> detect_visualization_type(RenamedFrame(df)), consulted |-> {"detect"}]
    ELSE [viz_type |-> viz_type, consulted |-> {}]

\* viz_mapping of Sidebar._apply_filters
viz_mapping(choice) ==
    CASE choice = "Auto-detect" -> "auto"
      [] choice = "Line Chart" -> "time_line"
      [] choice = "Bar Chart" -> "bar"
      [] choice = "Pie Chart" -> "pie"
      [] choice = "Table" -> "table"
      [] OTHER -> "auto"

\* the options of the sidebar's Preferred Visualization box
VizChoices == {"Auto-detect", "Line Chart", "Bar Chart", "Pie Chart", "Table"}

\* the columns results are made of
ColumnPool ==
    << [name |-> "Vuosi", numeric |-> TRUE],
       [name |-> "Quarter", numeric |-> FALSE],
       [name |-> "Hallinnonala", numeric |-> FALSE],
       [name |-> "spending", numeric |-> TRUE],
       [name |-> "budget", numeric |-> TRUE] >>

\* the numbers of rows of the results
RowCounts == {0, 1, 2, 5, 9, 11}

\* the results: some rows over some of the columns
Frames ==
    { [rows |-> n,
       columns |-> SelectSeq(ColumnPool, LAMBDA col : col.name \in names)]
        : n \in RowCounts,
          names \in (SUBSET { ColumnPool[i].name : i \in DOMAIN ColumnPool }) \ {{}} }

\* the application before any query and with the sidebar untouched
VizFresh ==
    /\ vizDetected = ""
    /\ preferred_viz_type = Absent
    /\ filters_viz_type = Absent
    /\ current_query = FALSE
    /\ renderedType = ""
    /\ consulted = {}

\* the visualizer as the other specifications leave it
VizIdle ==
    /\ VizFresh
    /\ vizDf = [rows |-> 0, columns |-> <<>>]

(***************************************************************************)
(* SQLValidator                                                            *)
(***************************************************************************)
\* SQLValidator._perform_custom_validation: the list, in its order
validator_finnish_columns ==
    << Kaytettavissa, Lisatalousarvio, Nettokertyma, Nettokertyma_ko_vuodelta,
       Kirjanpitoyksikko, Loppusaldo, Alkuperainen_talousarvio >>

\* the branch codes the validator takes for usual
usual_branch_codes == {23, 24, 25, 26, 27, 28, 29, 30, 31, 32}

Vuosi == <<"V","u","o","s","i">>
Ha_Tunnus == <<"H","a","_","T","u","n","n","u","s">>
GROUP_BY == <<"G","R","O","U","P"," ","B","Y">>
aggregations ==
    { <<"S","U","M">>, <<"A","V","G">>, <<"C","O","U","N","T">>, <<"M","A","X">>,
      <<"M","I","N">> }

\* the entries of the result lists: the text of the message and what the
\* f-string puts into it
BacktickWarning(col) == [msg |-> "Column should be backticked", arg |-> col]
YearWarning == [msg |-> "No year constraint found", arg |-> <<>>]
BranchWarning(code) == [msg |-> "Unusual administrative branch code", arg |-> code]
AggregationSuggestion == [msg |-> "GROUP BY but no aggregation functions", arg |-> <<>>]
ValidationFailed(e) == [msg |-> "Validation failed", arg |-> <<e>>]
CouldNotParse == [msg |-> "Could not parse validation result", arg |-> <<>>]
JsonParsingError == [msg |-> "JSON parsing error", arg |-> <<>>]

\* the end of the maximal run of digits that starts at i (i - 1 if none)
RECURSIVE DigitEnd(_, _)
DigitEnd(s, i) ==
    IF i <= Len(s) /\ s[i] \in Digits THEN DigitEnd(s, i + 1) ELSE i - 1

DigitValue(c) ==
    CASE c = "0" -> 0 [] c = "1" -> 1 [] c = "2" -> 2 [] c = "3" -> 3 [] c = "4" -> 4
      [] c = "5" -> 5 [] c = "6" -> 6 [] c = "7" -> 7 [] c = "8" -> 8 [] c = "9" -> 9

\* int(code) of a run of digits
RECURSIVE IntOf(_)
IntOf(code) ==
    IF code = <<>> THEN 0
    ELSE 10 * IntOf(SubSeq(code, 1, Len(code) - 1)) + DigitValue(code[Len(code)])

\* re.findall(r'Ha_Tunnus\s*=\s*(\d+)', sql) from position i on: the groups of
\* the non-overlapping matches, left to right
RECURSIVE BranchCodesFrom(_, _)
BranchCodesFrom(sql, i) ==
    LET j == Find(sql, i, Ha_Tunnus)
        p == SpaceEnd(sql, j + Len(Ha_Tunnus)) + 1
        q == SpaceEnd(sql, p + 1) + 1
        d == DigitEnd(sql, q)
    IN  IF j = 0 THEN <<>>
        ELSE IF p <= Len(sql) /\ sql[p] = "=" /\ d >= q
             THEN <<SubSeq(sql, q, d)>> \o BranchCodesFrom(sql, d + 1)
             ELSE BranchCodesFrom(sql, j + 1)

branch_codes(sql) == BranchCodesFrom(sql, 1)

\* the loop over finnish_columns, from the k-th column on
RECURSIVE BacktickWarnings(_, _)
BacktickWarnings(sql, k) ==
    IF k > Len(validator_finnish_columns) THEN <<>>
    ELSE LET col == validator_finnish_columns[k]
         IN  (IF Contains(sql, col) /\ ~Contains(sql, <<BT>> \o col \o <<BT>>)
              THEN <<BacktickWarning(col)>> ELSE <<>>)
             \o BacktickWarnings(sql, k + 1)

\* the loop over branch_codes
RECURSIVE BranchWarnings(_)
BranchWarnings(codes) ==
    IF codes = <<>> THEN <<>>
    ELSE (IF IntOf(Head(codes)) \notin usual_branch_codes
          THEN <<BranchWarning(Head(codes))>> ELSE <<>>)
         \o BranchWarnings(Tail(codes))

CustomWarnings(sql) ==
    BacktickWarnings(sql, 1)
    \o (IF ~Contains(sql, Vuosi) THEN <<YearWarning>> ELSE <<>>)
    \o (IF Contains(sql, Ha_Tunnus) THEN BranchWarnings(branch_codes(sql)) ELSE <<>>)

CustomSuggestions(sql) ==
    IF Contains(sql, GROUP_BY) /\ ~\E agg \in aggregations : Contains(sql, agg)
    THEN <<AggregationSuggestion>> ELSE <<>>

\* a validator whose style checks count as failures
perform_custom_validation_strict(sql) ==
    [is_valid |-> CustomWarnings(sql) = <<>> /\ CustomSuggestions(sql) = <<>>,
     syntax_errors |-> CustomWarnings(sql),
     field_errors |-> <<>>,
     warnings |-> <<>>,
     suggestions |-> CustomSuggestions(sql)]

\* SQLValidator._perform_custom_validation(sql, schema)
perform_custom_validation(sql) ==
    [is_valid |-> TRUE,
     syntax_errors |-> <<>>,
     field_errors |-> <<>>,
     warnings |-> CustomWarnings(sql),
     suggestions |-> CustomSuggestions(sql)]

\* SQLValidator._parse_validation_result(result_text): the text holds no
\* {...}, holds one json.loads rejects, or holds a JSON object
parse_validation_result(answer) ==
    CASE answer.kind = "nojson" ->
           [is_valid |-> FALSE, syntax_errors |-> <<CouldNotParse>>,
            field_errors |-> <<>>, warnings |-> <<>>, suggestions |-> <<>>]
      [] answer.kind = "badjson" ->
           [is_valid |-> FALSE, syntax_errors |-> <<JsonParsingError>>,
            field_errors |-> <<>>, warnings |-> <<>>, suggestions |-> <<>>]
      [] OTHER -> answer.value

\* the keys _merge_validation_results reads, in the order it reads them
merge_keys == <<"is_valid", "syntax_errors", "field_errors", "warnings", "suggestions">>

\* the first key of merge_keys that result1 lacks ("" if it has them all):
\* result1[key] raises KeyError(key)
RECURSIVE FirstMissing(_, _)
FirstMissing(result1, k) ==
    IF k > Len(merge_keys) THEN ""
    ELSE IF merge_keys[k] \notin DOMAIN result1 THEN merge_keys[k]
    ELSE FirstMissing(result1, k + 1)

\* "a and b" of two bool
And(a, b) == IF a THEN b ELSE a

\* SQLValidator._merge_validation_results(result1, result2), when every key
\* is there: list(set(...)) keeps each entry once, in no defined order
merge_validation_results(result1, result2) ==
    [is_valid |-> And(result1["is_valid"], result2["is_valid"]),
     syntax_errors |-> Range(result1["syntax_errors"] \o result2["syntax_errors"]),
     field_errors |-> Range(result1["field_errors"] \o result2["field_errors"]),
     warnings |-> Range(result1["warnings"] \o result2["warnings"]),
     suggestions |-> Range(result1["suggestions"] \o result2["suggestions"])]

\* the "except Exception as e" of validate_sql
validate_sql_except(e) ==
    [is_valid |-> FALSE, syntax_errors |-> {ValidationFailed(e)}, field_errors |-> {},
     warnings |-> {}, suggestions |-> {}]

\* no result: validate_sql has not run, or the step was not reached
NoVerdict == [kind |-> "none"]

\* what self.model.generate_content(prompt) does: it raises, or answers a text
\* that holds no JSON, damaged JSON, or a JSON object
ModelError == "APIError"
ModelWarning == [msg |-> "SELECT * reads every column", arg |-> <<>>]
ModelSyntaxError == [msg |-> "missing FROM clause", arg |-> <<>>]
ModelFieldError == [msg |-> "unknown field", arg |-> <<"x">>]

FullVerdicts ==
    { [is_valid |-> v, syntax_errors |-> se, field_errors |-> fe, warnings |-> w,
       suggestions |-> <<>>] :
        v \in BOOLEAN, se \in {<<>>, <<ModelSyntaxError>>},
        fe \in {<<>>, <<ModelFieldError>>},
        w \in {<<>>, <<ModelWarning, YearWarning>>} }

\* JSON objects that leave keys out
PartialVerdicts ==
    { [is_valid |-> TRUE],
      [is_valid |-> TRUE, syntax_errors |-> <<>>, field_errors |-> <<>>],
      [syntax_errors |-> <<ModelSyntaxError>>, field_errors |-> <<>>,
       warnings |-> <<>>, suggestions |-> <<>>] }

ModelAnswers ==
    { [kind |-> "raise"], [kind |-> "nojson"], [kind |-> "badjson"] }
    \cup { [kind |-> "json", value |-> d] : d \in FullVerdicts \cup PartialVerdicts }

\* the pieces the validated queries are concatenated from
MaxValPieces == 3

ValPieces ==
    << Nettokertyma, <<BT>>, Vuosi, Ha_Tunnus \o <<" ","=">>, <<" ">>, <<"2">>,
       GROUP_BY, <<"S","U","M">> >>

\* a query every style check has something to say about, and one none has
StyleQuery ==
    Select \o Nettokertyma \o <<" ">> \o From \o <<"t"," ","W","H","E","R","E"," ">>
        \o Ha_Tunnus \o <<" ","="," ","9","9"," ">> \o GROUP_BY \o <<" ">> \o Ha_Tunnus

CleanQuery ==
    Select \o <<"S","U","M","(",BT>> \o Nettokertyma \o <<BT,")"," ">> \o From
        \o <<"t"," ","W","H","E","R","E"," ">> \o Vuosi \o <<" ","="," ","2","0","2","2"," ","A","N","D"," ">>
        \o Ha_Tunnus \o <<"=","2","3">>

ValQueries ==
    { StyleQuery, CleanQuery } \cup
    { Flatten(ValPieces, idx) :
        idx \in UNION { [1..n -> 1..Len(ValPieces)] : n \in 0..MaxValPieces } }

\* the validator as the other specifications leave it
ValIdle ==
    /\ valSql = <<>>
    /\ valAnswer = [kind |-> "raise"]
    /\ valParsed = NoVerdict
    /\ valCustom = NoVerdict
    /\ valResult = NoVerdict

LateIdle == RegIdle /\ VizIdle /\ ValIdle

RestIdle == LLMIdle /\ CacheIdle /\ LateIdle

(***************************************************************************)
(* Specification of the sanitizers                                         *)
(***************************************************************************)
SanInit ==
    /\ sanQuery \in SanQueries
    /\ sanText = sanQuery
    /\ sanPrev = sanQuery
    /\ sanBy = "none"
    /\ sanCount = 0
    /\ testOutcome = "notrun"
    /\ ConvIdle
    /\ RestIdle

Apply(by, out) ==
    /\ sanBy \in {"none", by}
    /\ sanCount < MaxApply
    /\ sanBy' = by
    /\ sanPrev' = sanText
    /\ sanText' = out
    /\ sanCount' = sanCount + 1
    /\ UNCHANGED <<sanQuery, testOutcome, convVars, restVars>>

HandleFinnishCharacters == Apply("nl", NL_handle_finnish_characters(sanText))

EnhancedHandleFinnishCharacters ==
    Apply("enhanced", Enhanced_handle_finnish_characters(sanText))

SanitizeSql == Apply("executor", SQLExecutor_sanitize_sql(sanText))

ProviderExecuteQuery ==
    /\ sanBy = "none"
    /\ Apply("provider", RealDataProvider_execute_query(sanText))

\* self.provider._prepare_sql_query(query); assertEqual(prepared_query, expected_query)
TestPrepareSqlQuery ==
    /\ sanQuery = TestQuery
    /\ sanBy = "none"
    /\ testOutcome = "notrun"
    /\ testOutcome' = IF "_prepare_sql_query" \in RealDataProvider_methods
                      THEN "called"
                      ELSE "AttributeError"
    /\ UNCHANGED <<sanQuery, sanText, sanPrev, sanBy, sanCount, convVars,
                   restVars>>

SanNext ==
    \/ HandleFinnishCharacters
    \/ EnhancedHandleFinnishCharacters
    \/ SanitizeSql
    \/ ProviderExecuteQuery
    \/ TestPrepareSqlQuery

SpecSanitize == SanInit /\ [][SanNext]_vars

(***************************************************************************)
(* Specification of the converter and its callers                          *)
(***************************************************************************)
Init ==
    /\ SanIdle
    /\ RestIdle
    /\ variant \in {"nl", "enhanced"}
    /\ caller \in IF variant = "nl" THEN {"direct", "app", "handler"} ELSE {"direct"}
    /\ table_name \in Tables
    /\ schema \in Schemas
    /\ available_years \in AvailableYears
    /\ active_filters \in ActiveFilters
    /\ pc = "Idle"
    /\ prompt = NoPrompt
    /\ response = NoOutcome
    /\ result = NoResult
    /\ raised = "none"
    /\ trace = <<>>
    /\ modelCalls = 0
    /\ calls = 0
    /\ totalModelCalls = 0
    /\ execArg = NotCalled

config == <<variant, caller, table_name, schema, available_years, active_filters>>

\* generate_sql up to the model call: the table-information check and the
\* prompt (the enhanced converter builds its prompt inside its try block, as
\* the argument of generate_content)
GenerateSql ==
    /\ pc = "Idle"
    /\ calls < MaxCalls
    /\ calls' = calls + 1
    /\ modelCalls' = 0
    /\ LET p == IF variant = "nl"
                THEN NL_build_prompt(table_name, schema, active_filters,
                                     available_years, Question)
                ELSE Enhanced_build_prompt(table_name, schema, Question)
       IN  IF TableInfoMissing(table_name, schema)
           THEN /\ result' = TableInformationNotSet
                /\ pc' = "Done"
                /\ trace' = <<"return">>
                /\ UNCHANGED <<prompt, raised>>
           ELSE IF p.raised # "none"
           THEN /\ raised' = p.raised
                /\ pc' = "Raised"
                /\ trace' = <<>>
                /\ UNCHANGED <<prompt, result>>
           ELSE /\ prompt' = p
                /\ pc' = "PromptBuilt"
                /\ trace' = <<"prompt">>
                /\ UNCHANGED <<result, raised>>
    /\ UNCHANGED <<config, response, totalModelCalls, execArg, sanVars, restVars>>

\* model.generate_content(prompt, ...) inside the try block: a response, or an
\* exception that one of the except clauses turns into the returned value
InvokeModel ==
    /\ pc = "PromptBuilt"
    /\ modelCalls < MaxModelCalls
    /\ \E outcome \in ModelOutcomes(variant) :
          /\ response' = outcome
          /\ pc' = PcAfterInvoke(outcome)
          /\ result' = IF outcome.kind = "error"
                       THEN Except(variant, outcome.exc, outcome.msg)
                       ELSE result
    /\ modelCalls' = modelCalls + 1
    /\ totalModelCalls' = totalModelCalls + 1
    /\ trace' = Append(trace, "invoke")
    /\ UNCHANGED <<config, prompt, raised, calls, execArg, sanVars, restVars>>

\* self._extract_sql_and_explanation(response.text), or json.loads(response.text)
ParseResponse ==
    /\ pc = "ModelInvoked"
    /\ LET e == Enhanced_parse(response)
           r == IF variant = "nl" THEN extract_sql_and_explanation(response.text)
                ELSE IF e.exc # "none" THEN Except("enhanced", e.exc, e.msg)
                ELSE e.value
       IN  /\ result' = r
           /\ pc' = PcAfterParse(r.query)
    /\ trace' = Append(trace, "parse")
    /\ UNCHANGED <<config, prompt, response, raised, modelCalls, calls,
                   totalModelCalls, execArg, sanVars, restVars>>

\* sql_query = self._clean_sql(sql_query)
CleanSql ==
    /\ pc = "Parsed"
    /\ result' = [result EXCEPT !.query =
                     IF variant = "nl" THEN NL_clean_sql(result.query, table_name)
                     ELSE Enhanced_clean_sql(result.query, table_name)]
    /\ pc' = "Sanitized"
    /\ trace' = Append(trace, "sanitize")
    /\ UNCHANGED <<config, prompt, response, raised, modelCalls, calls,
                   totalModelCalls, execArg, sanVars, restVars>>

\* return sql_query, explanation
ReturnResult ==
    /\ pc \in {"Sanitized", "ParseFailed", "ModelFailed"}
    /\ pc' = "Done"
    /\ trace' = Append(trace, "return")
    /\ UNCHANGED <<config, prompt, response, result, raised, modelCalls, calls,
                   totalModelCalls, execArg, sanVars, restVars>>

\* FinancialDataApp.handle_query after _generate_sql_from_nl returned
AppHandleQuery ==
    /\ caller = "app"
    /\ pc \in {"Done", "Raised"}
    /\ LET r == App_generate_sql_from_nl(result, raised)
       IN  /\ result' = r
           /\ IF AppExecutes(r.query)
              THEN /\ execArg' = r.query
                   /\ trace' = Append(trace, "execute")
              ELSE UNCHANGED <<execArg, trace>>
    /\ raised' = "none"
    /\ pc' = "Handled"
    /\ UNCHANGED <<config, prompt, response, modelCalls, calls, totalModelCalls,
                   sanVars, restVars>>

\* QueryHandler.process_query after generate_sql returned or raised
HandlerProcessQuery ==
    /\ caller = "handler"
    /\ pc \in {"Done", "Raised"}
    /\ IF pc = "Raised"
       THEN UNCHANGED <<execArg, trace>>
       ELSE /\ execArg' = result.query
            /\ trace' = Append(trace, "execute")
    /\ pc' = "Handled"
    /\ UNCHANGED <<config, prompt, response, result, raised, modelCalls, calls,
                   totalModelCalls, sanVars, restVars>>

\* the caller turns to the next question
NextQuery ==
    /\ \/ pc = "Handled"
       \/ caller = "direct" /\ pc \in {"Done", "Raised"}
    /\ calls < MaxCalls
    /\ pc' = "Idle"
    /\ prompt' = NoPrompt
    /\ response' = NoOutcome
    /\ result' = NoResult
    /\ raised' = "none"
    /\ trace' = <<>>
    /\ modelCalls' = 0
    /\ execArg' = NotCalled
    /\ UNCHANGED <<config, calls, totalModelCalls, sanVars, restVars>>

Next ==
    \/ GenerateSql
    \/ InvokeModel
    \/ ParseResponse
    \/ CleanSql
    \/ ReturnResult
    \/ AppHandleQuery
    \/ HandlerProcessQuery
    \/ NextQuery

Spec == Init /\ [][Next]_vars

(***************************************************************************)
(* Specification of the parsers and of LLMInterface's fallbacks            *)
(***************************************************************************)
LLMInit ==
    /\ SanIdle
    /\ ConvIdle
    /\ llmPair \in Pairs \cup {NoPair}
    /\ llmText \in IF llmPair = NoPair THEN LLMTexts ELSE {None}
    /\ llmBy = "none"
    /\ llmParsed = NoResult
    /\ fbPc = "idle"
    /\ fbAttempts = <<>>
    /\ fbYields = <<>>
    /\ fbSql = NotCalled
    /\ fbRaised = "none"
    /\ CacheIdle
    /\ LateIdle

fbVars == <<fbPc, fbAttempts, fbYields, fbSql, fbRaised>>

\* the model answers with the pair in the convention the prompt asks for
FormatCanonical ==
    /\ llmPair # NoPair
    /\ llmText = None
    /\ llmText' = Canonical(llmPair.query, llmPair.explanation)
    /\ UNCHANGED <<llmPair, llmBy, llmParsed, fbVars, sanVars, convVars, cacheVars, lateVars>>

ParseBy(by, parsed) ==
    /\ llmText # None
    /\ llmBy = "none"
    /\ llmBy' = by
    /\ llmParsed' = parsed
    /\ UNCHANGED <<llmPair, llmText, fbVars, sanVars, convVars, cacheVars, lateVars>>

\* NLToSQLConverter._extract_sql_and_explanation(response_text)
ConverterExtract == ParseBy("converter", extract_sql_and_explanation(llmText))

\* LLMInterface._extract_sql_and_explanation(response_text)
LLMExtract == ParseBy("llm", LLM_extract_sql_and_explanation(llmText))

\* LLMInterface.extract_sql_from_response(response)
ExtractSqlFromResponse ==
    ParseBy("chain", [query |-> LLM_extract_sql_from_response(llmText),
                      explanation |-> None])

\* one attempt of generate_sql_with_fallbacks has returned sql
Attempted(name, sql, next) ==
    /\ fbAttempts' = Append(fbAttempts, name)
    /\ fbYields' = Append(fbYields, sql)
    /\ fbPc' = next
    /\ fbSql' = IF next = "done" THEN FbReturn(sql) ELSE fbSql
    /\ fbRaised' = "none"
    /\ UNCHANGED <<llmPair, llmText, llmBy, llmParsed, sanVars, convVars, cacheVars, lateVars>>

\* generate_sql_with_fallbacks up to the return of its first attempt
GenerateSqlQuery ==
    /\ fbPc = "idle"
    /\ \E outcome \in FbOutcomes :
          LET sql == LLM_generate_sql_query(LLMInterface_attributes, outcome)
          IN  Attempted("plain", sql, FbAfterPlain(sql))

GenerateStructuredSqlQuery ==
    /\ fbPc = "structured"
    /\ LET sql == LLM_generate_structured_sql_query
       IN  Attempted("structured", sql, FbAfterStructured(sql))

GenerateSqlQueryWithExamples ==
    /\ fbPc = "examples"
    /\ LET sql == LLM_generate_sql_query_with_examples
       IN  Attempted("examples", sql, "done")

LLMNext ==
    \/ FormatCanonical
    \/ ConverterExtract
    \/ LLMExtract
    \/ ExtractSqlFromResponse
    \/ GenerateSqlQuery
    \/ GenerateStructuredSqlQuery
    \/ GenerateSqlQueryWithExamples

SpecLLM == LLMInit /\ [][LLMNext]_vars

(***************************************************************************)
(* Specifications of the CachedQuerySystem                                  *)
(***************************************************************************)
\* one session calls the CachedQuerySystem, one call after the other
CacheInit ==
    /\ SanIdle
    /\ ConvIdle
    /\ LLMIdle
    /\ LateIdle
    /\ CacheFresh
    /\ cache_ttl \in TTLs
    /\ csessions = {1}

\* the sessions call the CachedQuerySystem at the same time
CacheConcurrentInit ==
    /\ SanIdle
    /\ ConvIdle
    /\ LLMIdle
    /\ LateIdle
    /\ CacheFresh
    /\ cache_ttl \in TTLs
    /\ csessions = Sessions

cleanupVars == <<cpc, current_time, iterPos, iterUsed, stale_keys, before>>

\* time.time() advances
Tick ==
    /\ now < MaxTime
    /\ now' = now + 1
    /\ UNCHANGED <<context_cache, cache_ttl, csessions, cleanupVars, craised,
                   lastGet, lastPut, ops, sanVars, convVars, llmVars, lateVars>>

\* a session calls cache_context(get_schema_hash(fields), context)
CacheContext ==
    \E s \in csessions, fields \in CacheSchemas, context \in Contexts :
        LET schema_hash == get_schema_hash(fields)
            cache == cache_context(context_cache, schema_hash, context, now, fields)
        IN  /\ cpc[s] = "idle"
            /\ ops < MaxOps
            /\ Len(cache) <= MaxSlots
            /\ context_cache' = cache
            /\ lastPut' = [lastPut EXCEPT ![schema_hash] = DictGet(cache, schema_hash)]
            /\ before' = [before EXCEPT ![s] = <<>>]
            /\ ops' = ops + 1
            /\ UNCHANGED <<cache_ttl, now, csessions, cpc, current_time, iterPos,
                           iterUsed, stale_keys, craised, lastGet,
                           sanVars, convVars, llmVars, lateVars>>

\* a session calls get_cached_context(get_schema_hash(fields))
GetCachedContext ==
    \E s \in csessions, fields \in CacheSchemas :
        LET schema_hash == get_schema_hash(fields)
        IN  /\ cpc[s] = "idle"
            /\ ops < MaxOps
            /\ lastGet' =
                   [lastGet EXCEPT ![s] =
                       [schema |-> fields,
                        key |-> schema_hash,
                        time |-> now,
                        value |-> get_cached_context(context_cache, schema_hash,
                                                     now, cache_ttl),
                        put |-> lastPut[schema_hash],
                        from |-> DictGet(context_cache, schema_hash).schema]]
            /\ ops' = ops + 1
            /\ UNCHANGED <<context_cache, cache_ttl, now, csessions, cleanupVars,
                           craised, lastPut, sanVars, convVars, llmVars, lateVars>>

\* a session enters cleanup_stale_cache: it reads the clock and starts to
\* iterate over the items of the dict
CleanupStart ==
    \E s \in csessions :
        /\ cpc[s] = "idle"
        /\ ops < MaxOps
        /\ cpc' = [cpc EXCEPT ![s] = "scan"]
        /\ current_time' = [current_time EXCEPT ![s] = now]
        /\ iterPos' = [iterPos EXCEPT ![s] = 0]
        /\ iterUsed' = [iterUsed EXCEPT ![s] = DictSize(context_cache)]
        /\ stale_keys' = [stale_keys EXCEPT ![s] = <<>>]
        /\ before' = [before EXCEPT ![s] = context_cache]
        /\ ops' = ops + 1
        /\ UNCHANGED <<context_cache, cache_ttl, now, csessions, craised, lastGet,
                       lastPut, sanVars, convVars, llmVars, lateVars>>

\* one step of the iteration that collects stale_keys: the iterator raises
\* RuntimeError when the size of the dict has changed since it was made
CleanupScan ==
    \E s \in csessions :
        /\ cpc[s] = "scan"
        /\ IF iterUsed[s] # DictSize(context_cache)
           THEN /\ craised' = [craised EXCEPT ![s] = "RuntimeError"]
                /\ cpc' = [cpc EXCEPT ![s] = "idle"]
                /\ UNCHANGED <<iterPos, stale_keys>>
           ELSE LET i == NextLive(context_cache, iterPos[s])
                IN  IF i = 0
                    THEN /\ cpc' = [cpc EXCEPT ![s] = "delete"]
                         /\ UNCHANGED <<iterPos, stale_keys, craised>>
                    ELSE /\ iterPos' = [iterPos EXCEPT ![s] = i]
                         /\ stale_keys' =
                                [stale_keys EXCEPT ![s] =
                                    IF IsStale(context_cache[i], current_time[s], cache_ttl)
                                    THEN Append(@, context_cache[i].key)
                                    ELSE @]
                         /\ UNCHANGED <<cpc, craised>>
        /\ UNCHANGED <<context_cache, cache_ttl, now, csessions, current_time,
                       iterUsed, before, lastGet, lastPut, ops,
                       sanVars, convVars, llmVars, lateVars>>

\* one step of the loop that deletes the stale_keys: del raises KeyError for
\* a key that is no longer in the dict
CleanupDelete ==
    \E s \in csessions :
        /\ cpc[s] = "delete"
        /\ IF stale_keys[s] = <<>>
           THEN /\ cpc' = [cpc EXCEPT ![s] = "idle"]
                /\ UNCHANGED <<context_cache, stale_keys, craised>>
           ELSE IF IndexOf(context_cache, Head(stale_keys[s])) = 0
                THEN /\ craised' = [craised EXCEPT ![s] = "KeyError"]
                     /\ cpc' = [cpc EXCEPT ![s] = "idle"]
                     /\ UNCHANGED <<context_cache, stale_keys>>
                ELSE /\ context_cache' = DictDel(context_cache, Head(stale_keys[s]))
                     /\ stale_keys' = [stale_keys EXCEPT ![s] = Tail(@)]
                     /\ UNCHANGED <<cpc, craised>>
        /\ UNCHANGED <<cache_ttl, now, csessions, current_time, iterPos, iterUsed,
                       before, lastGet, lastPut, ops, sanVars, convVars, llmVars, lateVars>>

CacheNext ==
    \/ Tick
    \/ CacheContext
    \/ GetCachedContext
    \/ CleanupStart
    \/ CleanupScan
    \/ CleanupDelete

SpecCache == CacheInit /\ [][CacheNext]_vars

SpecCacheConcurrent == CacheConcurrentInit /\ [][CacheNext]_vars

(***************************************************************************)
(* Specification of the SchemaService                                       *)
(***************************************************************************)
RegInit ==
    /\ SanIdle
    /\ ConvIdle
    /\ LLMIdle
    /\ CacheIdle
    /\ VizIdle
    /\ ValIdle
    /\ svc_instance = 0
    /\ svc_schema_dict = Unset
    /\ svc_schema_objects = Unset
    /\ lru_schema_dict = Unset
    /\ lru_schema_objects = Unset
    /\ schemaFile \in FileStates
    /\ fileChanges = 0
    /\ svcObjects = 0
    /\ svcConstructed = {}
    /\ svcOpens = 0
    /\ svcLoads = 0
    /\ svcOpensAfterLoad = 0
    /\ svcServed = {}
    /\ svcReturn = NoReturn
    /\ svcCalls = 0

notReg == <<sanVars, convVars, llmVars, cacheVars, vizVars, valVars>>

\* data/schema.json is written, removed or damaged on disk
SchemaFileChanges ==
    /\ fileChanges < MaxFileChanges
    /\ schemaFile' \in FileStates \ {schemaFile}
    /\ fileChanges' = fileChanges + 1
    /\ UNCHANGED <<svc_instance, svc_schema_dict, svc_schema_objects, lru_schema_dict,
                   lru_schema_objects, svcObjects, svcConstructed, svcOpens, svcLoads,
                   svcOpensAfterLoad, svcServed, svcReturn, svcCalls, notReg>>

\* SchemaService()
SvcConstruct ==
    /\ svcCalls < MaxSvcCalls
    /\ LET obj == SchemaService_new(svc_instance, svcObjects)
       IN  /\ svc_instance' = obj
           /\ svcObjects' = IF svc_instance = 0 THEN svcObjects + 1 ELSE svcObjects
           /\ svcConstructed' = svcConstructed \cup {obj}
           /\ svcReturn' = [call |-> "SchemaService", raised |-> "none", ret |-> <<>>]
           /\ IF svc_instance = 0
              THEN /\ svc_schema_dict' = Unset
                   /\ svc_schema_objects' = Unset
              ELSE UNCHANGED <<svc_schema_dict, svc_schema_objects>>
    /\ svcCalls' = svcCalls + 1
    /\ UNCHANGED <<lru_schema_dict, lru_schema_objects, schemaFile, fileChanges,
                   svcOpens, svcLoads, svcOpensAfterLoad, svcServed, notReg>>

\* what a call of get_schema_dict does to the file counters
FileCounters(r) ==
    /\ svcOpens' = IF r.opened THEN svcOpens + 1 ELSE svcOpens
    /\ svcLoads' = IF r.loaded THEN svcLoads + 1 ELSE svcLoads
    /\ svcOpensAfterLoad' =
           IF r.opened /\ svcLoads > 0 THEN svcOpensAfterLoad + 1 ELSE svcOpensAfterLoad

\* schema_service.get_schema_dict()
SvcGetSchemaDict ==
    /\ svc_instance # 0
    /\ svcCalls < MaxSvcCalls
    /\ LET r == SchemaService_get_schema_dict(lru_schema_dict, svc_schema_dict, schemaFile)
       IN  /\ lru_schema_dict' = r.lru
           /\ svc_schema_dict' = r.schema_dict
           /\ FileCounters(r)
           /\ svcServed' = IF r.raised = "none" THEN svcServed \cup {r.ret} ELSE svcServed
           /\ svcReturn' = [call |-> "get_schema_dict", raised |-> r.raised, ret |-> r.ret]
    /\ svcCalls' = svcCalls + 1
    /\ UNCHANGED <<svc_instance, svc_schema_objects, lru_schema_objects, schemaFile,
                   fileChanges, svcObjects, svcConstructed, notReg>>

\* schema_service.get_schema_objects()
SvcGetSchemaObjects ==
    /\ svc_instance # 0
    /\ svcCalls < MaxSvcCalls
    /\ IF lru_schema_objects.set \/ svc_schema_objects.set
       THEN LET held == IF lru_schema_objects.set THEN lru_schema_objects.val
                        ELSE svc_schema_objects.val
            IN  /\ lru_schema_objects' = Holding(held)
                /\ svcReturn' = [call |-> "get_schema_objects", raised |-> "none", ret |-> held]
                /\ UNCHANGED <<lru_schema_dict, svc_schema_dict, svc_schema_objects,
                               svcOpens, svcLoads, svcOpensAfterLoad, svcServed>>
       ELSE LET r == SchemaService_get_schema_dict(lru_schema_dict, svc_schema_dict, schemaFile)
            IN  /\ lru_schema_dict' = r.lru
                /\ svc_schema_dict' = r.schema_dict
                /\ FileCounters(r)
                /\ svcServed' = IF r.raised = "none" THEN svcServed \cup {r.ret} ELSE svcServed
                /\ IF r.raised = "none"
                   THEN /\ svc_schema_objects' = Holding(SchemaObjects(r.ret))
                        /\ lru_schema_objects' = Holding(SchemaObjects(r.ret))
                        /\ svcReturn' = [call |-> "get_schema_objects", raised |-> "none",
                                         ret |-> SchemaObjects(r.ret)]
                   ELSE /\ UNCHANGED <<svc_schema_objects, lru_schema_objects>>
                        /\ svcReturn' = [call |-> "get_schema_objects", raised |-> r.raised,
                                         ret |-> <<>>]
    /\ svcCalls' = svcCalls + 1
    /\ UNCHANGED <<svc_instance, schemaFile, fileChanges, svcObjects, svcConstructed, notReg>>

RegNext ==
    \/ SchemaFileChanges
    \/ SvcConstruct
    \/ SvcGetSchemaDict
    \/ SvcGetSchemaObjects

SpecRegistry == RegInit /\ [][RegNext]_vars

(***************************************************************************)
(* Specification of the visualization selection                             *)
(***************************************************************************)
VizInit ==
    /\ SanIdle
    /\ ConvIdle
    /\ LLMIdle
    /\ CacheIdle
    /\ RegIdle
    /\ ValIdle
    /\ VizFresh
    /\ vizDf \in Frames

notViz == <<sanVars, convVars, llmVars, cacheVars, regVars, valVars>>

\* visualizer.detect_visualization_type(df) on the current result
DetectVisualizationType ==
    /\ vizDetected' = detect_visualization_type(vizDf)
    /\ UNCHANGED <<vizDf, preferred_viz_type, filters_viz_type, current_query,
                   renderedType, consulted, notViz>>

\* handle_query from the execution of the query on: _recommend_visualization,
\* then render_results with the type it returned
RenderQuery(df) ==
    LET rec == App_recommend_visualization(preferred_viz_type, LLM_recommend_visualization)
        tab == RenderVisualizationTab(df, rec.viz_type)
    IN  IF df.rows = 0
        THEN /\ renderedType' = ""
             /\ consulted' = {}
        ELSE /\ renderedType' = tab.viz_type
             /\ consulted' = rec.consulted \cup tab.consulted

\* the user submits a question; a query that returns no rows is shown as an
\* error and nothing is drawn
HandleQuery ==
    \E df \in Frames :
        /\ vizDf' = df
        /\ current_query' = TRUE
        /\ vizDetected' = ""
        /\ RenderQuery(df)
        /\ UNCHANGED <<preferred_viz_type, filters_viz_type, notViz>>

\* the user presses Apply Filters: Sidebar._apply_filters builds the filters
\* and handle_filter_change stores them and runs the current query again
ApplyFilters ==
    \E choice \in VizChoices :
        /\ filters_viz_type' = viz_mapping(choice)
        /\ IF current_query
           THEN \E df \in Frames :
                    /\ vizDf' = df
                    /\ vizDetected' = ""
                    /\ RenderQuery(df)
           ELSE UNCHANGED <<vizDf, vizDetected, renderedType, consulted>>
        /\ UNCHANGED <<preferred_viz_type, current_query, notViz>>

VizNext ==
    \/ DetectVisualizationType
    \/ HandleQuery
    \/ ApplyFilters

SpecViz == VizInit /\ [][VizNext]_vars

(***************************************************************************)
(* Reading a query: identifiers and string literals                        *)
(***************************************************************************)
\* the end of the maximal run of word characters that starts at i
RECURSIVE WordEnd(_, _)
WordEnd(s, i) ==
    IF i < Len(s) /\ IsWordChar(s[i + 1]) THEN WordEnd(s, i + 1) ELSE i

\* the identifiers of s from position i on, each with the character before it
\* and the character after it ("" at either end of s)
RECURSIVE IdentifiersFrom(_, _)
IdentifiersFrom(s, i) ==
    IF i > Len(s) THEN <<>>
    ELSE IF IsWordChar(s[i])
         THEN LET e == WordEnd(s, i)
              IN  << [before |-> IF i = 1 THEN "" ELSE s[i - 1],
                      word   |-> SubSeq(s, i, e),
                      after  |-> IF e = Len(s) THEN "" ELSE s[e + 1]] >>
                  \o IdentifiersFrom(s, e + 1)
         ELSE IdentifiersFrom(s, i + 1)

Identifiers(s) == IdentifiersFrom(s, 1)

\* the position of the next quote character q at or after i, 0 if there is none
RECURSIVE QuoteClose(_, _, _)
QuoteClose(s, i, q) ==
    IF i > Len(s) THEN 0
    ELSE IF s[i] = q THEN i ELSE QuoteClose(s, i + 1, q)

\* the contents of the terminated string literals ('...' or "...") of s, in
\* order; a backtick-quoted identifier is skipped as a whole
RECURSIVE LiteralsFrom(_, _)
LiteralsFrom(s, i) ==
    IF i > Len(s) THEN <<>>
    ELSE IF s[i] \in {"'", "\"", BT}
         THEN LET c == QuoteClose(s, i + 1, s[i])
              IN  IF c = 0 THEN LiteralsFrom(s, i + 1)
                  ELSE IF s[i] = BT THEN LiteralsFrom(s, c + 1)
                  ELSE <<SubSeq(s, i + 1, c - 1)>> \o LiteralsFrom(s, c + 1)
         ELSE LiteralsFrom(s, i + 1)

Literals(s) == LiteralsFrom(s, 1)

\* every name some sanitizer protects
ProtectedNames ==
    Range(finnish_columns_to_ensure_backticked) \cup Range(finnish_columns)
    \cup Range(executor_finnish_columns)

\* an identifier that is no protected name but has one inside it
IsLongerIdentifier(w) ==
    /\ w \notin ProtectedNames
    /\ \E col \in ProtectedNames : Contains(w, col)

RegexSanitizers == {"nl", "enhanced"}
Sanitizers == {"nl", "enhanced", "executor"}

(***************************************************************************)
(* Claims about the sanitizers (checked under SpecSanitize)                *)
(***************************************************************************)
\* C1: applying a sanitizer (NLToSQLConverter._handle_finnish_characters, the
\* EnhancedNLToSQLConverter variant or SQLExecutor._sanitize_sql) a second time
\* gives exactly the string the first application gave.
C1_SanitizerIdempotent ==
    (sanBy \in Sanitizers /\ sanCount = 2) => sanText = sanPrev

\* the same for the two regular-expression sanitizers alone
RegexSanitizersIdempotent ==
    (sanBy \in RegexSanitizers /\ sanCount = 2) => sanText = sanPrev

\* C2: the query RealDataProvider prepares has every whole-word, unquoted
\* Finnish column name wrapped in one pair of backticks and is otherwise the
\* query it was given: test_prepare_sql_query passes, and the test's query
\* reaches the BigQuery client as the test's expected query.
C2_ProviderPreparesQuery ==
    /\ testOutcome \in {"notrun", "passed"}
    /\ (sanBy = "provider" /\ sanQuery = TestQuery) => sanText = TestExpected

\* what NLToSQLConverter._handle_finnish_characters makes of the test's query
HandleFinnishPreparesTestQuery ==
    (sanBy = "nl" /\ sanQuery = TestQuery /\ sanCount >= 1) => sanText = TestExpected

\* the identifiers of in are the identifiers of out, one for one, and those
\* that are no protected name have the same neighbours in out as in in
IdentifiersKept(in, out) ==
    LET a == Identifiers(in)
        b == Identifiers(out)
    IN  /\ Len(a) = Len(b)
        /\ \A j \in 1..Len(a) :
              /\ a[j].word = b[j].word
              /\ a[j].word \notin ProtectedNames => a[j] = b[j]

\* the orders in which the protected names may be processed
ColumnOrders ==
    { finnish_columns_to_ensure_backticked,
      Reverse(finnish_columns_to_ensure_backticked),
      finnish_columns, Reverse(finnish_columns) }

\* C3: a regular-expression sanitizer never puts a backtick inside an
\* identifier, and an identifier that merely contains a protected name keeps its
\* text and its neighbours, in whatever order the protected names are processed.
C3_WordBoundarySafety ==
    (sanBy \in RegexSanitizers /\ sanCount >= 1) =>
        /\ IdentifiersKept(sanPrev, sanText)
        /\ \A cols \in ColumnOrders :
              IdentifiersKept(sanPrev, BacktickColumns(sanPrev, cols, 1))

\* a longer identifier with a protected name inside went through a sanitizer
\* that wrapped another occurrence of the name
C3_Witness ==
    /\ sanBy \in RegexSanitizers
    /\ sanCount = 1
    /\ sanText # sanPrev
    /\ \E j \in DOMAIN Identifiers(sanPrev) :
          IsLongerIdentifier(Identifiers(sanPrev)[j].word)

\* C4: the contents of every string literal of the query are the same before
\* and after sanitization.
C4_StringLiteralsUntouched ==
    (sanBy \in Sanitizers /\ sanCount >= 1) => Literals(sanText) = Literals(sanPrev)

(***************************************************************************)
(* Claims about the converter (checked under Spec)                         *)
(***************************************************************************)
Steps == Range(trace)

\* every step b of the current conversion has a step a before it
Before(a, b) ==
    \A j \in DOMAIN trace : trace[j] = b => \E i \in 1..(j - 1) : trace[i] = a

\* C5: with an empty table name or an empty schema, generate_sql returns the
\* failure (None, "Table information not set...") and neither builds a prompt
\* nor invokes the model.
C5_TableInfoNotSet ==
    ((table_name = <<>> \/ schema = <<>>) /\ pc # "Idle") =>
        /\ pc \in {"Done", "Handled"}
        /\ result.query = None
        /\ result.explanation[1] = "Table information not set"
        /\ prompt = NoPrompt
        /\ modelCalls = 0
        /\ totalModelCalls = 0
        /\ raised = "none"
        /\ Steps \cap {"prompt", "invoke", "parse", "sanitize"} = {}

\* generate_sql returned the failure for a converter that has a table name but
\* an empty schema
C5_Witness ==
    /\ pc = "Done"
    /\ table_name # <<>>
    /\ schema = <<>>
    /\ result = TableInformationNotSet

\* C6: when the model invocation fails, generate_sql returns a result with no
\* query whose explanation contains the error's message; the parser and the
\* sanitizer are not run and no exception leaves generate_sql.
C6_ModelFailureIsValue ==
    response.kind = "error" =>
        /\ pc \in {"ModelFailed", "Done", "Handled"}
        /\ raised = "none"
        /\ result.query = None
        /\ response.msg \in Range(result.explanation)
        /\ Steps \cap {"parse", "sanitize"} = {}

\* generate_sql returned after the model call raised a GoogleAPIError
C6_Witness ==
    /\ pc = "Done"
    /\ response.kind = "error"
    /\ response.exc = "GoogleAPIError"
    /\ trace = <<"prompt", "invoke", "return">>

\* C7: with a table name and a schema, NLToSQLConverter.generate_sql builds its
\* prompt in every session state and no exception of the prompt construction
\* leaves it.
C7_PromptBuildSucceeds ==
    (variant = "nl" /\ table_name # <<>> /\ schema # <<>> /\ pc # "Idle") =>
        /\ pc # "Raised"
        /\ raised = "none"

\* C8: a result that generate_sql returns without a query has a non-empty
\* explanation, whatever the model's response text.
C8_FailureCarriesCause ==
    (variant = "nl" /\ pc = "Done" /\ result.query = None) =>
        NonEmptyStr(result.explanation)

\* C9: the prompt is built before the model is invoked, the response is parsed
\* before the sanitizer runs, and a query the executor is called with went
\* through every step, in order, and is the sanitizer's output.
C9_StrictStepOrdering ==
    /\ Before("prompt", "invoke")
    /\ Before("invoke", "parse")
    /\ Before("parse", "sanitize")
    /\ (execArg # NotCalled /\ Truthy(execArg)) =>
          /\ trace = <<"prompt", "invoke", "parse", "sanitize", "return", "execute">>
          /\ execArg = result.query
          /\ NL_handle_finnish_characters(execArg) = execArg

\* FinancialDataApp.handle_query called the executor with a generated query
C9_Witness ==
    /\ caller = "app"
    /\ pc = "Handled"
    /\ execArg # NotCalled
    /\ Truthy(execArg)

\* C10: one call of generate_sql invokes the model at most once, and there are
\* never more model invocations than calls of generate_sql.
C10_NoRetry ==
    /\ modelCalls <= 1
    /\ totalModelCalls <= calls

\* a second call of generate_sql invoked the model again after the first
\* call's model invocation had failed
C10_Witness ==
    /\ calls = 2
    /\ totalModelCalls = 2
    /\ modelCalls = 1
    /\ response.kind = "error"

(***************************************************************************)
(* Claims about LLMInterface and the parsers (checked under SpecLLM)       *)
(***************************************************************************)
FallbackOrder == <<"plain", "structured", "examples">>

PairParsed == llmPair # NoPair /\ llmBy \in {"converter", "llm"}

\* C12: formatting any pair (query_text, explanation) in the prompt's convention
\* and parsing it with _extract_sql_and_explanation gives the original pair.
C12_RoundTripParse == PairParsed => llmParsed = llmPair

\* a pair the convention can carry: a non-empty query without surrounding
\* whitespace, without a fence and without the explanation label; an
\* explanation without surrounding whitespace and without a blank line
Representable(pair) ==
    /\ pair.query # <<>>
    /\ Strip(pair.query) = pair.query
    /\ ~Contains(pair.query, Fence)
    /\ ~Contains(pair.query, ExplanationLabel)
    /\ Strip(pair.explanation) = pair.explanation
    /\ ~Contains(pair.explanation, <<"\n", "\n">>)

\* C12 (amended): the round trip gives the original pair for every pair the
\* convention can carry.
C12_RoundTripRepresentable ==
    (PairParsed /\ Representable(llmPair)) => llmParsed = llmPair

\* a query and a two-line explanation came back unchanged
C12_Witness ==
    /\ llmBy = "converter"
    /\ llmPair = [query |-> ModelQuery, explanation |-> <<"o","k","\n","n","o">>]
    /\ llmText = Canonical(llmPair.query, llmPair.explanation)
    /\ llmParsed = llmPair

C14_ParserFallbackChain ==
    (/\ llmBy \in {"converter", "chain"}
     /\ llmText \in {ModelQuery, <<"o","k"," ">> \o ModelQuery}
     /\ ~Contains(llmText, Fence)) =>
        llmParsed.query = ModelQuery

(***************************************************************************)
(* Claims about structured responses and the result (checked under Spec)   *)
(***************************************************************************)
\* the field of a JSON response that names the query
QueryFields(fields) ==
    { f \in {"sql", "query"} : f \in DOMAIN fields /\ Truthy(fields[f]) }

\* C15: from a response that is a JSON object with a sql or a query field and
\* an explanation field, the converter takes the query, sanitized, and the
\* explanation; the field name query is handled as the field name sql is.
C15_StructuredResponses ==
    (/\ variant = "enhanced"
     /\ pc = "Done"
     /\ response.kind = "json"
     /\ response.json = "object"
     /\ "explanation" \in DOMAIN response.fields
     /\ QueryFields(response.fields) # {}) =>
        /\ \A f \in QueryFields(response.fields) :
              result.query = Enhanced_clean_sql(response.fields[f], table_name)
        /\ result.explanation = response.fields["explanation"]

\* the word that starts at position i of s: up to the next whitespace
RECURSIVE TokenEnd(_, _)
TokenEnd(s, i) ==
    IF i <= Len(s) /\ ~IsSpace(s[i]) THEN TokenEnd(s, i + 1) ELSE i - 1

\* the table references of a query: the word after each FROM
TableRefs(q) ==
    { SubSeq(q, j + Len(From), TokenEnd(q, j + Len(From))) :
        j \in { i \in 1..Len(q) : StartsAt(q, i, From) } }

\* the column references of a query: the word after each SELECT, without its
\* backticks
ColumnRefs(q) ==
    { StrReplace(SubSeq(q, j + Len(Select), TokenEnd(q, j + Len(Select))),
                 <<BT>>, <<>>) :
        j \in { i \in 1..Len(q) : StartsAt(q, i, Select) } }

\* the characters of the column names of a schema
SchemaColumns(fields) ==
    { IF fields[i].name = "Vuosi" THEN <<"V","u","o","s","i">> ELSE Nettokertyma :
        i \in DOMAIN fields }

\* C16: a query that generate_sql returns names no table but the configured
\* fully-qualified one, in one pair of backticks, and no column outside the
\* schema.
C16_ResultInvariant ==
    (pc = "Done" /\ Truthy(result.query)) =>
        /\ TableRefs(result.query) = { <<BT>> \o table_name \o <<BT>> }
        /\ ColumnRefs(result.query) \subseteq SchemaColumns(schema)

\* the age, at a session's last get_cached_context, of the last entry that
\* was cached for its key
AgeAtGet(s) == lastGet[s].time - lastGet[s].put.timestamp

\* C17: after cache_context(k, v) and with no later cache_context for k,
\* get_cached_context(k) returns v at every time less than the TTL later and
\* returns nothing once the clock is beyond the TTL, whether or not
\* cleanup_stale_cache was called in between.
C17_CacheTTL ==
    \A s \in Sessions :
        (lastGet[s] # NoGet /\ lastGet[s].put # NoEntry)
            => /\ AgeAtGet(s) < cache_ttl => lastGet[s].value = lastGet[s].put.context
               /\ AgeAtGet(s) > cache_ttl => lastGet[s].value = NoContext

\* a context is returned before its TTL has passed although a
\* cleanup_stale_cache that found the entry ran before the get
C17_Witness ==
    /\ lastGet[1] # NoGet
    /\ lastGet[1].put # NoEntry
    /\ AgeAtGet(1) < cache_ttl
    /\ AgeAtGet(1) > 0
    /\ lastGet[1].value = lastGet[1].put.context
    /\ cpc[1] = "idle"
    /\ IndexOf(before[1], lastGet[1].key) # 0
    /\ DictGet(before[1], lastGet[1].key) = lastGet[1].put
    /\ current_time[1] < lastGet[1].time

\* the entries of a dict
Entries(cache) == { cache[i] : i \in Live(cache) }

\* a session's cleanup_stale_cache has returned
CleanupReturned(s) ==
    /\ before[s] # <<>>
    /\ cpc[s] = "idle"
    /\ craised[s] = "none"

\* C18: cleanup_stale_cache removes exactly the entries whose age
\* (current time - timestamp) is greater than the TTL: an entry of age at most
\* the TTL is still there after the call, with its value and its timestamp.
C18_EvictionOnlyRemovesStale ==
    \A s \in Sessions :
        CleanupReturned(s)
            => Entries(context_cache)
                   = { e \in Entries(before[s]) : current_time[s] - e.timestamp <= cache_ttl }

\* C18, amended: cleanup_stale_cache removes exactly the entries whose age is
\* at least the TTL: an entry of age less than the TTL is still there after
\* the call, with its value and its timestamp.
C18_EvictionRemovesExpired ==
    \A s \in Sessions :
        CleanupReturned(s)
            => Entries(context_cache)
                   = { e \in Entries(before[s]) : current_time[s] - e.timestamp < cache_ttl }

\* a cleanup_stale_cache has removed one entry and kept another
C18_Witness ==
    /\ CleanupReturned(1)
    /\ \E e \in Entries(before[1]) : current_time[1] - e.timestamp >= cache_ttl
    /\ \E e \in Entries(before[1]) :
           /\ current_time[1] - e.timestamp < cache_ttl
           /\ e \in Entries(context_cache)

\* C19: when sessions call get_cached_context, cache_context and
\* cleanup_stale_cache at the same time, no call raises, no entry that has not
\* expired is removed (an entry cached again between the scan and the delete
\* of a cleanup survives), and a key holds the value that was written last.
C19_CacheConcurrencySafety ==
    /\ \A s \in Sessions : craised[s] = "none"
    /\ \A k \in CacheKeys :
           (lastPut[k] # NoEntry /\ now - lastPut[k].timestamp < cache_ttl)
               => DictGet(context_cache, k) = lastPut[k]

\* a field record as its set of items, whatever the order of its keys
Items(field) == { field[j] : j \in DOMAIN field }

\* two schemas have the same field records, in whatever order
SameFieldRecords(a, b) ==
    { Items(a[i]) : i \in DOMAIN a } = { Items(b[i]) : i \in DOMAIN b }

\* two schemas have the same field records in the same order
SameFieldList(a, b) ==
    /\ Len(a) = Len(b)
    /\ \A i \in DOMAIN a : Items(a[i]) = Items(b[i])

\* C20: get_schema_hash gives the same key for two schemas with the same field
\* records, regardless of the order of the keys in a record and of the order
\* of the fields in the list, and different keys when a field differs; a
\* context cached for one schema is never returned for a changed schema.
C20_CacheKeyContentHash ==
    \A s \in Sessions :
        lastGet[s] # NoGet
            => /\ \A e \in Entries(context_cache) :
                      SameFieldRecords(e.schema, lastGet[s].schema)
                          <=> e.key = lastGet[s].key
               /\ lastGet[s].value # NoContext
                      => SameFieldRecords(lastGet[s].from, lastGet[s].schema)

\* C20, amended: get_schema_hash gives the same key for two schemas with the
\* same field records in the same order, regardless of the order of the keys
\* in a record, and different keys when a field differs; a context cached for
\* one schema is never returned for a changed schema.
C20_CacheKeyOrderedContentHash ==
    \A s \in Sessions :
        lastGet[s] # NoGet
            => /\ \A e \in Entries(context_cache) :
                      SameFieldList(e.schema, lastGet[s].schema)
                          <=> e.key = lastGet[s].key
               /\ lastGet[s].value # NoContext
                      => SameFieldList(lastGet[s].from, lastGet[s].schema)

\* the context cached for a schema is returned for the same schema written
\* with the keys of a record in another order, and is not returned for a
\* schema with a changed field
C20_Witness ==
    /\ lastGet[1] # NoGet
    /\ lastGet[1].value # NoContext
    /\ lastGet[1].from # lastGet[1].schema
    /\ \E e \in Entries(context_cache) :
           /\ e.key # lastGet[1].key
           /\ ~SameFieldRecords(e.schema, lastGet[1].schema)

\* C21: over any sequence of SchemaService() constructions and
\* get_schema_dict / get_schema_objects calls, all constructions yield the same
\* instance, the schema file is loaded at most once (by the first access that
\* succeeds), and every later call is served the same schema from memory
\* without the file being opened.
C21_SchemaLoadsOnce ==
    /\ Cardinality(svcConstructed) <= 1
    /\ svcLoads <= 1
    /\ svcOpensAfterLoad = 0
    /\ Cardinality(svcServed) <= 1
    /\ (svcLoads = 1 /\ svcReturn.call = "get_schema_dict")
           => svcReturn.raised = "none" /\ svcReturn.ret = svc_schema_dict.val
    /\ (svcLoads = 1 /\ svcReturn.call = "get_schema_objects")
           => svcReturn.raised = "none" /\ svcReturn.ret = SchemaObjects(svc_schema_dict.val)

\* the schema has been loaded, the file has since changed on disk, and a
\* later call was still served the schema that was loaded
C21_Witness ==
    /\ svcLoads = 1
    /\ svcObjects = 1
    /\ svcCalls = MaxSvcCalls
    /\ schemaFile \in {"v1", "v2"}
    /\ json_load(schemaFile) # svc_schema_dict.val
    /\ svcReturn.call = "get_schema_dict"
    /\ svcReturn.ret = svc_schema_dict.val
    /\ svcOpens = 1

\* the sections of the built prompt that have a given heading
SectionsOf(heading) == SelectSeq(prompt.sections, LAMBDA sec : sec[1] = heading)

\* the converter of the application has built a prompt
PromptBuilt == variant = "nl" /\ prompt.sections # <<>>

\* C22: with year_start = year_end = X the built prompt has exactly one filter
\* instruction, for the year X, and none for a range; with
\* year_start < year_end it has exactly one, for the inclusive range; with
\* either bound missing it has none.
C22_PromptFilterConstraint ==
    PromptBuilt
        => /\ Len(SectionsOf("filters")) = 1
           /\ LET instructions == SectionsOf("filters")[1][2]
                  has_start == "year_start" \in DOMAIN active_filters
                  has_end == "year_end" \in DOMAIN active_filters
              IN  /\ (has_start /\ has_end /\ active_filters.year_start = active_filters.year_end)
                         => instructions =
                                << <<"Data must be filtered for the year",
                                     active_filters.year_start>> >>
                  /\ (has_start /\ has_end /\ active_filters.year_start < active_filters.year_end)
                         => instructions =
                                << <<"Data must cover the year range",
                                     active_filters.year_start, active_filters.year_end>> >>
                  /\ (~has_start \/ ~has_end) => instructions = <<>>

\* a prompt was built for the filters of one single year
C22_Witness ==
    /\ PromptBuilt
    /\ DOMAIN active_filters = {"year_start", "year_end"}
    /\ active_filters.year_start = active_filters.year_end
    /\ SectionsOf("filters")[1][2] # <<>>

\* the kind of a section of a prompt, "" for a section the order of the
\* specification does not name
SectionKind(sec) ==
    CASE sec[1] \in {"table", "fields", "glossary", "filters", "available_years",
                     "question"} -> sec[1]
      [] sec[1] \in {"example", "examples"} -> "examples"
      [] OTHER -> ""

\* the worked examples a section of a prompt holds
WorkedExamples(sec) ==
    CASE sec[1] = "example" -> 1
      [] sec[1] = "examples" -> 4
      [] OTHER -> 0

\* the kinds of the sections of the built prompt, in their order
SectionKinds ==
    LET named == SelectSeq(prompt.sections, LAMBDA sec : SectionKind(sec) # "")
    IN  [i \in DOMAIN named |-> SectionKind(named[i])]

\* C23: every built prompt has its sections in the order table identifier
\* instructions, schema listing, domain glossary, active-filter constraints,
\* available-year bounds, 2 to 4 worked examples, and the user question last.
C23_PromptSectionOrder ==
    prompt.sections # <<>>
        => /\ SectionKinds = <<"table", "fields", "glossary", "filters",
                               "available_years", "examples", "question">>
           /\ \A i \in DOMAIN prompt.sections :
                  SectionKind(prompt.sections[i]) = "examples"
                      => WorkedExamples(prompt.sections[i]) \in 2..4
           /\ prompt.sections[Len(prompt.sections)][1] = "question"

\* detect_visualization_type has been called on the current result
Detected == vizDetected # ""

Measures(df) ==
    SelectSeq(NumericColumns(df),
              LAMBDA col : Lower(col.name) \notin TimeNames \cup CategoryNames)

\* C25: for a result with more than one row, at least one time column and at
\* least one numeric column, detect_visualization_type returns 'time_bar' for
\* more than 2 numeric columns, 'time_multi_line' for exactly 2 and
\* 'time_line' for exactly 1; a year column plus a single measure gives
\* 'time_line'.
C25_TimeRule ==
    (Detected /\ vizDf.rows > 1 /\ TimeColumns(vizDf) # <<>> /\ NumericColumns(vizDf) # <<>>)
        => /\ Len(NumericColumns(vizDf)) > 2 => vizDetected = "time_bar"
           /\ Len(NumericColumns(vizDf)) = 2 => vizDetected = "time_multi_line"
           /\ Len(NumericColumns(vizDf)) = 1 => vizDetected = "time_line"
           /\ (/\ Len(vizDf.columns) = 2
               /\ Len(Measures(vizDf)) = 1
               /\ \E i \in DOMAIN vizDf.columns :
                      Lower(vizDf.columns[i].name) \in {"year", "vuosi"})
                  => vizDetected = "time_line"

\* C26: detect_visualization_type returns 'table' for every result that
\* matches none of the rules 1 to 4: not a single row with a numeric column,
\* not time and numeric columns with more than one row, not category and
\* numeric columns, and at most 10 rows; e.g. 5 rows with one numeric column
\* and neither time nor category columns.
C26_DefaultTable ==
    (/\ Detected
     /\ ~(vizDf.rows = 1 /\ NumericColumns(vizDf) # <<>>)
     /\ ~(TimeColumns(vizDf) # <<>> /\ NumericColumns(vizDf) # <<>> /\ vizDf.rows > 1)
     /\ ~(CategoryColumns(vizDf) # <<>> /\ NumericColumns(vizDf) # <<>>)
     /\ vizDf.rows <= 10)
        => vizDetected = "table"

\* the visualization type the user has applied in the sidebar, other than
\* auto-detect
UserPreference == filters_viz_type \notin {Absent, "auto"}

\* C27: after the user has applied a preferred visualization type other than
\* auto-detect, every query is drawn with that type, and neither the model
\* recommendation nor detect_visualization_type is consulted.
C27_UserPreferenceWins ==
    (UserPreference /\ renderedType # "")
        => /\ renderedType = filters_viz_type
           /\ consulted = {}

(***************************************************************************)
(* Specification of the SQLValidator                                        *)
(***************************************************************************)
ValInit ==
    /\ SanIdle
    /\ ConvIdle
    /\ LLMIdle
    /\ CacheIdle
    /\ RegIdle
    /\ VizIdle
    /\ valSql \in ValQueries
    /\ valAnswer \in ModelAnswers
    /\ valParsed = NoVerdict
    /\ valCustom = NoVerdict
    /\ valResult = NoVerdict

notVal == <<sanVars, convVars, llmVars, cacheVars, regVars, vizVars>>

\* SQLValidator.validate_sql(sql, schema): the model is asked, its answer is
\* parsed, the style checks run and the two results are merged; whatever is
\* raised on the way becomes a failure result
ValidateSql ==
    /\ valResult = NoVerdict
    /\ IF valAnswer.kind = "raise"
       THEN /\ valParsed' = NoVerdict
            /\ valCustom' = NoVerdict
            /\ valResult' = validate_sql_except(ModelError)
       ELSE LET result1 == parse_validation_result(valAnswer)
                result2 == perform_custom_validation(valSql)
                missing == FirstMissing(result1, 1)
            IN  /\ valParsed' = result1
                /\ valCustom' = result2
                /\ valResult' =
                       IF missing # ""
                       THEN validate_sql_except(missing)
                       ELSE merge_validation_results(result1, result2)
    /\ UNCHANGED <<valSql, valAnswer, notVal>>

ValNext == ValidateSql

SpecValidator == ValInit /\ [][ValNext]_vars

\* validate_sql returned what _merge_validation_results built
Merged == valCustom # NoVerdict /\ FirstMissing(valParsed, 1) = ""

\* C28: the style checks of SQLValidator only add warnings and suggestions: their
\* result is valid and has no syntax or field errors, so the merged result
\* has the is_valid of the model's verdict and exactly the model's syntax and
\* field errors, and its warnings and suggestions hold everything the model
\* reported; the query that was validated is the one the call was given
C28_ValidatorAdvisory ==
    /\ valCustom # NoVerdict
         => /\ valCustom.is_valid = TRUE
            /\ valCustom.syntax_errors = <<>>
            /\ valCustom.field_errors = <<>>
    /\ Merged
         => /\ valResult.is_valid = valParsed.is_valid
            /\ valResult.syntax_errors = Range(valParsed.syntax_errors)
            /\ valResult.field_errors = Range(valParsed.field_errors)
            /\ Range(valParsed.warnings) \subseteq valResult.warnings
            /\ Range(valParsed.suggestions) \subseteq valResult.suggestions

\* every style check has fired on a query the model found valid, and the
\* merged result is valid
C28_Witness ==
    /\ Merged
    /\ valParsed.is_valid = TRUE
    /\ valResult.is_valid = TRUE
    /\ BacktickWarning(Nettokertyma) \in valResult.warnings
    /\ YearWarning \in valResult.warnings
    /\ BranchWarning(<<"9","9">>) \in valResult.warnings
    /\ AggregationSuggestion \in valResult.suggestions

ChangedKeys ==
    { k \in CacheKeys : DictGet(context_cache', k) # DictGet(context_cache, k) }

\* C30: in every state of the cache and at every value of the clock (Tick
\* takes it through all of them) get_cached_context(k) returns a value exactly
\* when a cleanup_stale_cache run at that instant would keep the key k (and a
\* cleanup that has returned left what that run leaves); a call that changes
\* the cache is never a get_cached_context, and it changes no entry but one:
\* the entry of the key cache_context was given, stamped with the time of the
\* call.
C30_CacheReadEvictAgreement ==
    /\ [](LET kept == cleanup_stale_cache(context_cache, now, cache_ttl)
          IN  \A k \in CacheKeys :
                  get_cached_context(context_cache, k, now, cache_ttl) # NoContext
                      <=> \E i \in Live(kept) : kept[i].key = k)
    /\ [](\A s \in Sessions :
             CleanupReturned(s)
                 => Entries(context_cache)
                        = Entries(cleanup_stale_cache(before[s], current_time[s], cache_ttl)))
    /\ [][(context_cache' # context_cache /\ ops' # ops) =>
             /\ ~(lastPut' = lastPut /\ GetCachedContext)
             /\ \A k \in ChangedKeys :
                    /\ ChangedKeys = {k}
                    /\ lastPut'[k] = DictGet(context_cache', k)
                    /\ lastPut'[k].timestamp = now]_vars

\* an entry as old as the TTL is in the cache next to a younger one: a get of
\* its key returned nothing, and a cleanup run now would remove it and keep
\* the other
C30_Witness ==
    /\ lastGet[1] # NoGet
    /\ lastGet[1].time = now
    /\ lastGet[1].value = NoContext
    /\ IndexOf(context_cache, lastGet[1].key) # 0
    /\ now - DictGet(context_cache, lastGet[1].key).timestamp = cache_ttl
    /\ IndexOf(cleanup_stale_cache(context_cache, now, cache_ttl), lastGet[1].key) = 0
    /\ \E k \in CacheKeys :
           /\ k # lastGet[1].key
           /\ get_cached_context(context_cache, k, now, cache_ttl) # NoContext
           /\ IndexOf(cleanup_stale_cache(context_cache, now, cache_ttl), k) # 0

====
